---- MODULE Spec2Model ----
(***************************************************************************)
(* A state-machine model of the portable-text input component              *)
(* (PortableTextInput): the object-editing orchestration driven by the     *)
(* external focusPath, the deferred opening of block/inline object         *)
(* editors, closing, and the proxying of nested form changes.              *)
(*                                                                         *)
(* Paths are sequences of segments.  A keyed segment {_key: k} is the      *)
(* record [_key |-> k]; a property-name segment 'children' is the record   *)
(* [name |-> "children"].  JavaScript's null and undefined are the records *)
(* Null and Undefined.                                                     *)
(*                                                                         *)
(* The text engine is a collaborator of the component: a call of           *)
(* PortableTextEditor.select(editor, sel) is taken to leave the engine's   *)
(* selection at sel.  A timeout may run at any later moment, so other       *)
(* steps may come between the scheduling of a deferred open and its tick.  *)
(*                                                                         *)
(* The editable surface (PortableTextEditable) is modelled beside it: its   *)
(* paste handler with the promise of the external paste function, and the  *)
(* composing flag that gates the effect restoring the value from props.    *)
(*                                                                         *)
(* The popover dialog of the object editors (PopoverEditDialog) and the     *)
(* tags field (TagsTextField) are small components of their own, each with  *)
(* a specification of its own.                                              *)
(***************************************************************************)
EXTENDS Integers, Sequences, FiniteSets, TLC

VARIABLES
    value,            \* the editor value (PortableTextEditor.getValue(editor))
    focusPath,        \* prop focusPath
    hasFocus,         \* prop hasFocus
    isActive,         \* useState(false)
    objectEditData,   \* useState(null)
    initialSelection, \* useState(undefined)
    selection,        \* the engine selection (usePortableTextEditorSelection())
    timeouts,         \* pending setTimeout callbacks, in the order they were scheduled
    selectionDirty,   \* the selection effect's dependencies changed since it last ran
    crashed,          \* an effect threw: the component is unmounted
    onFocusCalls,     \* paths handed to props.onFocus by the last step
    onChangeCalls,    \* patch events handed to props.onChange by the last step
    patcheNext,       \* patches pushed on props.patche$ by the last step
    step,             \* the handler or effect that ran last, with its arguments
    \* PortableTextEditable: pasting
    slateSelection,   \* slateEditor.selection is set (TRUE) or null (FALSE)
    pastes,           \* paste events whose onPaste promise has not settled yet
    settled,          \* the paste event whose promise the last step settled, or Null
    inserted,         \* what the last step inserted into the engine
    loadingCalls,     \* isLoading of the loading changes the last step put on change$
    isLoading,        \* isLoading of the latest loading change on change$
    defaultPrevented, \* the last step called event.preventDefault()
    onPasteCalled,    \* the last step called props.onPaste
    consoleErrors,    \* how many errors the last step logged with console.error
    uncaught,         \* an exception or rejection escaped the handler
    \* PortableTextEditable: value from props and composing
    pteValue,         \* usePortableTextEditorValue()
    slateChildren,    \* slateEditor.children
    isComposing,      \* useState(false)
    debounceTimer,    \* unsetIsComposingDebounced is waiting to fire
    slateOnChange,    \* how many times the last step called slateEditor.onChange()
    quietFor,         \* milliseconds since unsetIsComposingDebounced was last called
    nodeIsNew,        \* per child: the last step took the node from toSlateValue
    \* PortableTextEditable: selection from props
    propsSelection,   \* the selection prop
    slateRange,       \* the range slateEditor.selection holds, or Null
    selectOnChange,   \* how many times the last selection step called slateEditor.onChange()
    \* PortableTextInput: rendering
    markers,          \* the markers prop
    rendered,         \* what the last render callback handed to its component, or Null
    \* CrossDatasetReferenceInput
    refValue,         \* the value prop: a reference, or Undefined
    refFocusPath,     \* the focusPath prop
    refPending,       \* the search hit the autocomplete has yet to report, or Null
    refOnChange,      \* the arguments of the onChange calls of the last step
    refOnPathFocus,   \* the arguments of the onPathFocus calls of the last step
    \* PortableTextInput: fullscreen
    isFullscreen,     \* the isFullscreen prop
    toggleCalls,      \* the calls of the last handleToggleFullscreen, in their order
    \* PopoverEditDialog
    isTopLayer,       \* useLayer().isTopLayer
    forceUpdate,      \* useState(0)
    onCloseCalls,     \* how many times the last step called props.onClose
    \* TagsTextField
    tags,             \* props.tags
    inputValue,       \* this._input.value
    isFocused,        \* this.state.isFocused
    length,           \* this.state.length
    addTagCalls,      \* the arguments of the props.addTag calls of the last step
    removeTagCalls    \* the arguments of the props.removeTag calls of the last step

\* the state of PortableTextInput, but for step
inputVars == <<value, focusPath, hasFocus, isActive, objectEditData, initialSelection,
               selection, timeouts, selectionDirty, crashed, onFocusCalls,
               onChangeCalls, patcheNext>>

pasteVars == <<slateSelection, pastes, settled, inserted, loadingCalls, isLoading,
               defaultPrevented, onPasteCalled, consoleErrors, uncaught>>

composeVars == <<pteValue, slateChildren, isComposing, debounceTimer, slateOnChange,
                 quietFor, nodeIsNew>>

\* the state of PortableTextEditable
selectVars == <<propsSelection, slateRange, selectOnChange>>

editableVars == <<pasteVars, composeVars, selectVars>>

renderVars == <<markers, rendered>>

referenceVars == <<refValue, refFocusPath, refPending, refOnChange, refOnPathFocus>>

fullscreenVars == <<isFullscreen, toggleCalls>>

popoverVars == <<isTopLayer, forceUpdate, onCloseCalls>>

tagsVars == <<tags, inputValue, isFocused, length, addTagCalls, removeTagCalls>>

fieldVars == <<popoverVars, tagsVars>>

vars == <<inputVars, step, editableVars, renderVars, referenceVars, fullscreenVars,
          fieldVars>>

-----------------------------------------------------------------------------
(* Bounds of the model *)

\* how many deferred opens may be pending at once
MaxTimeouts == 1
\* how many patches a nested patch event carries at most
MaxPatches == 3

-----------------------------------------------------------------------------
(* Values *)

Null == [null |-> TRUE]
Undefined == [undefined |-> TRUE]

K(k) == [_key |-> k]
N(s) == [name |-> s]

isKeySegment(segment) == "_key" \in DOMAIN segment

\* array[i] with JavaScript's 0-based index: undefined past the end
At(path, i) == IF i + 1 <= Len(path) THEN path[i + 1] ELSE Undefined

\* array.slice(from, to)
Slice(path, from, to) ==
    LET hi == IF to <= Len(path) THEN to ELSE Len(path)
    IN  IF from >= hi THEN <<>> ELSE SubSeq(path, from + 1, hi)

\* {focus: {path, offset: 0}, anchor: {path, offset: 0}}
Collapsed(path) ==
    [focus |-> [path |-> path, offset |-> 0], anchor |-> [path |-> path, offset |-> 0]]

Span(k, marks) == [_key |-> k, _type |-> "span", marks |-> marks]
InlineObj(k) == [_key |-> k, _type |-> "stockTicker"]

\* The documents the editor may hold: a text block b1 and an object block b2.
Doc1 ==
    << [_key |-> "b1", _type |-> "block",
        children |-> << Span("s1", {}), Span("s2", {"m1"}), Span("s3", {"m1"}),
                        InlineObj("c1") >>],
       [_key |-> "b2", _type |-> "image"] >>

Doc2 ==
    << [_key |-> "b2", _type |-> "image"],
       [_key |-> "b1", _type |-> "block",
        children |-> << InlineObj("c1"), Span("s3", {"m1"}), Span("s1", {}) >>] >>

Documents == {Doc1, Doc2}

\* The focus paths the parent form may hand to the component.
FocusPaths ==
    { <<>>,
      <<K("b2")>>,
      <<K("b1"), N("style")>>,
      <<K("b2"), N("caption")>>,
      <<K("bX"), N("caption")>>,
      <<K("b1"), N("children"), K("s1")>>,
      <<K("b1"), N("children"), K("s1"), N("text")>>,
      <<K("b1"), N("children"), K("c1"), N("symbol")>>,
      <<K("b1"), N("markDefs"), K("m1")>>,
      <<K("b1"), N("markDefs"), K("m1"), N("href")>>,
      <<K("b1"), N("markDefs"), K("m2")>>,
      <<K("b1"), N("markDefs"), N("length")>>,
      <<K("bX"), N("markDefs"), K("m1")>>,
      <<K("b2"), N("markDefs"), K("m1")>> }

-----------------------------------------------------------------------------
(* Helpers of the focus-path effect *)

MinOf(S) == CHOOSE i \in S : \A j \in S : i <= j

\* (PortableTextEditor.getValue(editor) || []).find(blk => blk._key === key)
FindBlock(blocks, key) ==
    LET hits == {i \in 1..Len(blocks) : blocks[i]._key = key}
    IN  IF hits = {} THEN Undefined ELSE blocks[MinOf(hits)]

\* Array.isArray(child.marks) && child.marks.includes(markKey)
HasMark(child, markKey) == "marks" \in DOMAIN child /\ markKey \in child.marks

MaxOf(S) == CHOOSE i \in S : \A j \in S : i >= j

\* a find that keeps the last matching child instead of the first
FindSpanLast(block, markKey) ==
    LET hits == {i \in 1..Len(block.children) : HasMark(block.children[i], markKey)}
    IN  IF hits = {} THEN Undefined ELSE block.children[MaxOf(hits)]

\* block.children.find(child => Array.isArray(child.marks) && child.marks.includes(markKey))
FindSpan(block, markKey) ==
    LET hits == {i \in 1..Len(block.children) : HasMark(block.children[i], markKey)}
    IN  IF hits = {} THEN Undefined ELSE block.children[MinOf(hits)]

isChild(path) == At(path, 1) = N("children")
isMarkdef(path) == At(path, 1) = N("markDefs")

\* the block branch taken for any non-empty path (length > 0 instead of > 1)
IsBlockFocusPathFromOne(path) ==
    (isChild(path) /\ Len(path) > 3) \/ (~isChild(path) /\ Len(path) > 0)

\* the block branch taken for a child path of three segments (length > 2 instead of > 3)
IsBlockFocusPathFromThree(path) ==
    (isChild(path) /\ Len(path) > 2) \/ (~isChild(path) /\ Len(path) > 1)

\* the condition of the "Block focus paths" branch
IsBlockFocusPath(path) ==
    (isChild(path) /\ Len(path) > 3) \/ (~isChild(path) /\ Len(path) > 1)

\* kind of the object the block branch opens
BlockFocusKind(path) == IF isChild(path) THEN "inlineObject" ELSE "blockObject"

\* the child path cut one segment short: focusPath.slice(1, 2) instead of slice(1, 3)
BlockFocusObjectPathShort(path) ==
    IF isChild(path) THEN Slice(path, 0, 1) \o Slice(path, 1, 2) ELSE Slice(path, 0, 1)

\* path of the object the block branch opens
BlockFocusObjectPath(path) ==
    IF isChild(path) THEN Slice(path, 0, 1) \o Slice(path, 1, 3) ELSE Slice(path, 0, 1)

\* the argument of the deferred setObjectEditData
DeferredEditData(path) ==
    [editorPath |-> BlockFocusObjectPath(path),
     formBuilderPath |-> BlockFocusObjectPath(path),
     kind |-> BlockFocusKind(path)]

\* the argument of setObjectEditData in the annotation branch
AnnotationEditData(path, span) ==
    [editorPath |-> <<At(path, 0), N("children"), K(span._key)>>,
     formBuilderPath |-> Slice(path, 0, 3),
     kind |-> "annotation"]

\* what a step that calls none of the callback props leaves behind
NoCalls ==
    /\ onFocusCalls' = <<>>
    /\ onChangeCalls' = <<>>
    /\ patcheNext' = <<>>

-----------------------------------------------------------------------------
(* The effect on [focusPath]: opens the editing interfaces according to the   *)
(* focusPath.  It runs when the parent hands the component a new focusPath.   *)

\* Annotation focus paths: the branch taken when isMarkdef && isKeySegment(blockSegment)
AnnotationFocus(path) ==
    LET block == FindBlock(value, At(path, 0)._key)
        markDefSegment == At(path, 2)
    IN  IF block # Undefined /\ isKeySegment(markDefSegment)
        THEN IF "children" \notin DOMAIN block
             THEN \* block.children is undefined: .find throws a TypeError
                  /\ crashed' = TRUE
                  /\ UNCHANGED <<isActive, selection, objectEditData, selectionDirty,
                                 timeouts>>
             ELSE LET span == FindSpan(block, markDefSegment._key)
                  IN  IF span # Undefined
                      THEN /\ isActive' = TRUE
                           /\ selection' = Collapsed(AnnotationEditData(path, span).editorPath)
                           /\ objectEditData' = AnnotationEditData(path, span)
                           /\ selectionDirty' = TRUE
                           /\ UNCHANGED <<crashed, timeouts>>
                      ELSE UNCHANGED <<isActive, selection, objectEditData,
                                       selectionDirty, crashed, timeouts>>
        ELSE UNCHANGED <<isActive, selection, objectEditData, selectionDirty, crashed,
                         timeouts>>

\* the block branch without the setTimeout: the editing interface is loaded at once
BlockFocusNoTimeout(path) ==
    /\ Len(timeouts) < MaxTimeouts
    /\ isActive' = TRUE
    /\ selection' = Collapsed(BlockFocusObjectPath(path))
    /\ selectionDirty' = TRUE
    /\ objectEditData' = DeferredEditData(path)
    /\ UNCHANGED <<timeouts, crashed>>

\* Block focus paths: select the object now, open its editor in a timeout
BlockFocus(path) ==
    /\ Len(timeouts) < MaxTimeouts
    /\ isActive' = TRUE
    /\ selection' = Collapsed(BlockFocusObjectPath(path))
    /\ selectionDirty' = TRUE
    /\ timeouts' = Append(timeouts, DeferredEditData(path))
    /\ UNCHANGED <<objectEditData, crashed>>

\* the effect without its objectEditData === null condition
FocusPathEffectAlways(path) ==
    IF isMarkdef(path) /\ isKeySegment(At(path, 0))
    THEN AnnotationFocus(path)
    ELSE IF IsBlockFocusPath(path)
         THEN BlockFocus(path)
         ELSE UNCHANGED <<isActive, selection, objectEditData, selectionDirty,
                          crashed, timeouts>>

FocusPathEffect(path) ==
    IF objectEditData = Null
    THEN IF isMarkdef(path) /\ isKeySegment(At(path, 0))
         THEN AnnotationFocus(path)
         ELSE IF IsBlockFocusPath(path)
              THEN BlockFocus(path)
              ELSE UNCHANGED <<isActive, selection, objectEditData, selectionDirty,
                               crashed, timeouts>>
    ELSE UNCHANGED <<isActive, selection, objectEditData, selectionDirty, crashed,
                     timeouts>>

SetFocusPath(path) ==
    /\ ~crashed
    /\ UNCHANGED <<editableVars, renderVars, referenceVars, fullscreenVars, fieldVars>>
    /\ focusPath' = path
    /\ FocusPathEffect(path)
    /\ NoCalls
    /\ step' = [op |-> "focusPath"]
    /\ UNCHANGED <<value, hasFocus, initialSelection>>

\* the callback handed to setTimeout by the block branch
Tick ==
    /\ ~crashed
    /\ UNCHANGED <<editableVars, renderVars, referenceVars, fullscreenVars, fieldVars>>
    /\ timeouts # <<>>
    /\ objectEditData' = Head(timeouts)
    /\ timeouts' = Tail(timeouts)
    /\ selectionDirty' = TRUE
    /\ NoCalls
    /\ step' = [op |-> "tick"]
    /\ UNCHANGED <<value, focusPath, hasFocus, isActive, initialSelection, selection,
                   crashed>>

-----------------------------------------------------------------------------
(* The effect on [hasFocus], and explicit activation *)

\* the effect on [hasFocus] without its setIsActive(true)
SetHasFocusKeepsActive(h) ==
    /\ ~crashed
    /\ UNCHANGED <<editableVars, renderVars, referenceVars, fullscreenVars, fieldVars>>
    /\ h # hasFocus
    /\ hasFocus' = h
    /\ NoCalls
    /\ step' = [op |-> "hasFocus"]
    /\ UNCHANGED <<value, focusPath, isActive, objectEditData, initialSelection,
                   selection, timeouts, selectionDirty, crashed>>

\* an effect on [hasFocus] that lets isActive follow the focus
SetHasFocusFollows(h) ==
    /\ ~crashed
    /\ UNCHANGED <<editableVars, renderVars, referenceVars, fullscreenVars, fieldVars>>
    /\ h # hasFocus
    /\ hasFocus' = h
    /\ isActive' = h
    /\ NoCalls
    /\ step' = [op |-> "hasFocus"]
    /\ UNCHANGED <<value, focusPath, objectEditData, initialSelection, selection,
                   timeouts, selectionDirty, crashed>>

SetHasFocus(h) ==
    /\ ~crashed
    /\ UNCHANGED <<editableVars, renderVars, referenceVars, fullscreenVars, fieldVars>>
    /\ h # hasFocus
    /\ hasFocus' = h
    /\ isActive' = IF h THEN TRUE ELSE isActive
    /\ NoCalls
    /\ step' = [op |-> "hasFocus"]
    /\ UNCHANGED <<value, focusPath, objectEditData, initialSelection, selection,
                   timeouts, selectionDirty, crashed>>

\* the editor's value changes: no effect of the component has it as a dependency
SetValue(v) ==
    /\ ~crashed
    /\ UNCHANGED <<editableVars, renderVars, referenceVars, fullscreenVars, fieldVars>>
    /\ v # value
    /\ value' = v
    /\ NoCalls
    /\ step' = [op |-> "setValue"]
    /\ UNCHANGED <<focusPath, hasFocus, isActive, objectEditData, initialSelection,
                   selection, timeouts, selectionDirty, crashed>>

handleActivate ==
    /\ ~crashed
    /\ UNCHANGED <<editableVars, renderVars, referenceVars, fullscreenVars, fieldVars>>
    /\ isActive' = TRUE
    /\ NoCalls
    /\ step' = [op |-> "activate"]
    /\ UNCHANGED <<value, focusPath, hasFocus, objectEditData, initialSelection,
                   selection, timeouts, selectionDirty, crashed>>

-----------------------------------------------------------------------------
(* The effect on [selection, initialSelection, objectEditData]: updates the    *)
(* form builder's focus path from the editor's selection.                      *)

isCollapsed(sel) ==
    sel.focus.path = sel.anchor.path /\ sel.focus.offset = sel.anchor.offset

\* the test of the effect without its look at objectEditData
SelectionEffectEmitsWhileOpen ==
    /\ selection # Undefined
    /\ ~isMarkdef(focusPath)
    /\ isCollapsed(selection)
    /\ focusPath # selection.focus.path

SelectionEffectEmits ==
    /\ selection # Undefined
    /\ objectEditData = Null
    /\ ~isMarkdef(focusPath)
    /\ isCollapsed(selection)
    /\ focusPath # selection.focus.path

SelectionEffect ==
    /\ ~crashed
    /\ UNCHANGED <<editableVars, renderVars, referenceVars, fullscreenVars, fieldVars>>
    /\ selectionDirty
    /\ selectionDirty' = FALSE
    /\ onFocusCalls' = IF SelectionEffectEmits THEN <<selection.focus.path>> ELSE <<>>
    /\ onChangeCalls' = <<>>
    /\ patcheNext' = <<>>
    /\ step' = [op |-> "selectionEffect"]
    /\ UNCHANGED <<value, focusPath, hasFocus, isActive, objectEditData,
                   initialSelection, selection, timeouts, crashed>>

\* the selections the user may make in the editor: collapsed in a span, and a
\* range within a span; usePortableTextEditorSelection() hands them to the
\* component
UserSelections ==
    { Collapsed(<<K("b1"), N("children"), K("s1")>>),
      Collapsed(<<K("b1"), N("children"), K("s2")>>),
      [focus |-> [path |-> <<K("b1"), N("children"), K("s1")>>, offset |-> 0],
       anchor |-> [path |-> <<K("b1"), N("children"), K("s1")>>, offset |-> 3]] }

UserSelects(sel) ==
    /\ ~crashed
    /\ UNCHANGED <<editableVars, renderVars, referenceVars, fullscreenVars, fieldVars>>
    /\ sel # selection
    /\ selection' = sel
    /\ selectionDirty' = TRUE
    /\ NoCalls
    /\ step' = [op |-> "userSelects"]
    /\ UNCHANGED <<value, focusPath, hasFocus, isActive, objectEditData,
                   initialSelection, timeouts, crashed>>

-----------------------------------------------------------------------------
(* Closing the object editor *)

\* a close that re-selects the form builder path of the session, not its editor path
handleCloseFormBuilderPath ==
    /\ ~crashed
    /\ UNCHANGED <<editableVars, renderVars, referenceVars, fullscreenVars, fieldVars>>
    /\ objectEditData # Null
    /\ objectEditData' = Null
    /\ onFocusCalls' = <<objectEditData.editorPath>>
    /\ selection' = Collapsed(objectEditData.formBuilderPath)
    /\ initialSelection' = Collapsed(objectEditData.formBuilderPath)
    /\ selectionDirty' = TRUE
    /\ onChangeCalls' = <<>>
    /\ patcheNext' = <<>>
    /\ step' = [op |-> "close"]
    /\ UNCHANGED <<value, focusPath, hasFocus, isActive, timeouts, crashed>>

handleClose ==
    /\ ~crashed
    /\ UNCHANGED <<editableVars, renderVars, referenceVars, fullscreenVars, fieldVars>>
    /\ objectEditData # Null
    /\ objectEditData' = Null
    /\ onFocusCalls' = <<objectEditData.editorPath>>
    /\ selection' = Collapsed(objectEditData.editorPath)
    /\ initialSelection' = Collapsed(objectEditData.editorPath)
    /\ selectionDirty' = TRUE
    /\ onChangeCalls' = <<>>
    /\ patcheNext' = <<>>
    /\ step' = [op |-> "close"]
    /\ UNCHANGED <<value, focusPath, hasFocus, isActive, timeouts, crashed>>

-----------------------------------------------------------------------------
(* Proxying the changes of a nested object form *)

Reverse(s) == [i \in 1..Len(s) |-> s[Len(s) + 1 - i]]

\* PatchEvent.prefixAll(segment): every patch's path gets the segment in front
prefixAll(patches, segment) ==
    [i \in 1..Len(patches) |-> [patches[i] EXCEPT !.path = <<segment>> \o @]]

\* segments.forEach(segment => { _patchEvent = _patchEvent.prefixAll(segment) })
RECURSIVE PrefixEach(_, _)
PrefixEach(patches, segments) ==
    IF segments = <<>> THEN patches
    ELSE PrefixEach(prefixAll(patches, Head(segments)), Tail(segments))

\* the prefixing without .reverse()
PrefixedPatchEventNoReverse(patchEvent, path) ==
    PrefixEach(patchEvent, Slice(path, 0, Len(path)))

\* the _patchEvent handleFormBuilderEditObjectChange forwards
PrefixedPatchEvent(patchEvent, path) == PrefixEach(patchEvent, Reverse(Slice(path, 0, Len(path))))

\* the patches a nested form emits, and the paths of the objects that emit them
NestedPatches ==
    { [type |-> "set", path |-> <<>>, value |-> "X"],
      [type |-> "unset", path |-> <<N("title")>>],
      [type |-> "insert", path |-> <<N("tags"), K("t1")>>, value |-> "Y"] }

PatchEvents ==
    UNION { [1..n -> NestedPatches] : n \in 0..MaxPatches }

ObjectPaths ==
    { <<K("b2")>>,
      <<K("b1"), N("children"), K("c1")>>,
      <<K("b1"), N("markDefs"), K("m1")>> }

handleFormBuilderEditObjectChange(patchEvent, path) ==
    /\ ~crashed
    /\ UNCHANGED <<editableVars, renderVars, referenceVars, fullscreenVars, fieldVars>>
    /\ patcheNext' = PrefixedPatchEvent(patchEvent, path)
    /\ onChangeCalls' = <<PrefixedPatchEvent(patchEvent, path)>>
    /\ onFocusCalls' = <<>>
    /\ step' = [op |-> "change", patchEvent |-> patchEvent, path |-> path]
    /\ UNCHANGED <<value, focusPath, hasFocus, isActive, objectEditData,
                   initialSelection, selection, timeouts, selectionDirty, crashed>>

-----------------------------------------------------------------------------
(* The focus proxy of the nested object form *)

\* the argument of the nested form's onFocus: a path, or nothing
PathArg(path) == [path |-> path]

NextPathArgs ==
    { Undefined,
      PathArg(<<>>),
      PathArg(<<K("b2"), N("caption")>>),
      PathArg(<<K("b1"), N("markDefs"), K("m1"), N("href")>>) }

\* the proxy without its test of objectEditData
handleEditObjectFormBuilderFocusAlways(nextPath) ==
    /\ ~crashed
    /\ UNCHANGED <<editableVars, renderVars, referenceVars, fullscreenVars, fieldVars>>
    /\ onFocusCalls' = IF nextPath # Undefined THEN <<nextPath.path>> ELSE <<>>
    /\ onChangeCalls' = <<>>
    /\ patcheNext' = <<>>
    /\ step' = [op |-> "formBuilderFocus", nextPath |-> nextPath]
    /\ UNCHANGED <<value, focusPath, hasFocus, isActive, objectEditData,
                   initialSelection, selection, timeouts, selectionDirty, crashed>>

\* if (objectEditData && nextPath) onFocus(nextPath): an empty array is truthy
handleEditObjectFormBuilderFocus(nextPath) ==
    /\ ~crashed
    /\ UNCHANGED <<editableVars, renderVars, referenceVars, fullscreenVars, fieldVars>>
    /\ onFocusCalls' = IF objectEditData # Null /\ nextPath # Undefined
                       THEN <<nextPath.path>>
                       ELSE <<>>
    /\ onChangeCalls' = <<>>
    /\ patcheNext' = <<>>
    /\ step' = [op |-> "formBuilderFocus", nextPath |-> nextPath]
    /\ UNCHANGED <<value, focusPath, hasFocus, isActive, objectEditData,
                   initialSelection, selection, timeouts, selectionDirty, crashed>>

\* the render of the editor: readOnly={isActive === false || readOnly}, where the
\* readOnly prop is a boolean or null; the editable is read-only when the
\* expression is truthy
ReadOnlyProps == {[given |-> FALSE], [given |-> TRUE, readOnly |-> FALSE],
                  [given |-> TRUE, readOnly |-> TRUE]}
Truthy(prop) == prop.given /\ prop.readOnly

EditorReadOnly(readOnly) == (isActive = FALSE) \/ Truthy(readOnly)

-----------------------------------------------------------------------------
(* PortableTextEditable: pasting *)

\* how many pastes may wait for their handler's result at once
MaxPastes == 2

\* what the external paste handler does with a paste: it returns (or resolves
\* to) a result with insert, a falsy result or a result without insert, it
\* returns (or resolves to) an Error, it throws an Error or another value, or
\* its promise rejects
PasteOutcomes ==
    {"insert", "falsy", "unexpected", "error", "throws", "throwsValue", "rejects"}

\* try { return onPaste(...) } catch (error) { return error }: what is thrown
\* becomes the result
resolveOnPasteResultOrError(outcome) ==
    CASE outcome = "throws" -> "error"
      [] outcome = "throwsValue" -> "unexpected"
      [] OTHER -> outcome

\* the .then callback, by the result the promise is fulfilled with
PasteThen(result) ==
    [loading |-> IF result = "insert" THEN <<TRUE, FALSE>> ELSE <<TRUE>>,
     fragment |-> result = "insert",
     prevented |-> result = "insert",
     throws |-> result = "error"]

\* the .catch callback
PasteCatch == [loading |-> <<FALSE>>, errors |-> 1]

\* Promise.resolve(resolveOnPasteResultOrError()).then(...).catch(...)
PasteChain(outcome) ==
    LET result == resolveOnPasteResultOrError(outcome) IN
    IF result = "rejects"
    THEN [loading |-> PasteCatch.loading, fragment |-> FALSE, prevented |-> FALSE,
          errors |-> PasteCatch.errors]
    ELSE IF PasteThen(result).throws
    THEN [loading |-> PasteThen(result).loading \o PasteCatch.loading,
          fragment |-> FALSE, prevented |-> FALSE, errors |-> PasteCatch.errors]
    ELSE [loading |-> PasteThen(result).loading,
          fragment |-> PasteThen(result).fragment,
          prevented |-> PasteThen(result).prevented, errors |-> 0]

Last(s) == s[Len(s)]

RemoveAt(s, i) == SubSeq(s, 1, i - 1) \o SubSeq(s, i + 1, Len(s))

inputUnchanged ==
    UNCHANGED <<value, focusPath, hasFocus, isActive, objectEditData, initialSelection,
                selection, timeouts, selectionDirty, crashed, onFocusCalls,
                onChangeCalls, patcheNext, markers, rendered, referenceVars,
                fullscreenVars, fieldVars>>

\* a collapsed range of the engine: the path holds the indexes of the block and
\* of the child
SlateCollapsed(path, offset) ==
    [anchor |-> [path |-> path, offset |-> offset],
     focus |-> [path |-> path, offset |-> offset]]

\* the engine gains or loses its selection
SetSlateSelection(has) ==
    /\ has # slateSelection
    /\ slateSelection' = has
    /\ slateRange' = IF has THEN SlateCollapsed(<<0, 0>>, 0) ELSE Null
    /\ settled' = Null
    /\ inserted' = <<>>
    /\ loadingCalls' = <<>>
    /\ defaultPrevented' = FALSE
    /\ onPasteCalled' = FALSE
    /\ consoleErrors' = 0
    /\ step' = [op |-> "slateSelection"]
    /\ inputUnchanged
    /\ UNCHANGED <<pastes, isLoading, uncaught, composeVars, propsSelection,
                   selectOnChange>>

\* handlePaste past its test of the engine's selection: the handler is called
\* and its result awaited; the statements after the if (onPaste) block run
\* before the handler's result is known
pasteWithSelection(hasOnPaste, outcome) ==
    /\ hasOnPaste => Len(pastes) < MaxPastes
    /\ onPasteCalled' = hasOnPaste
    /\ pastes' = IF hasOnPaste
                 THEN Append(pastes, [outcome |-> outcome, inserted |-> <<"clipboard">>])
                 ELSE pastes
    /\ defaultPrevented' = TRUE
    /\ inserted' = <<"clipboard">>
    /\ settled' = Null
    /\ loadingCalls' = <<>>
    /\ consoleErrors' = 0
    /\ uncaught' = FALSE
    /\ step' = [op |-> "paste", hasOnPaste |-> hasOnPaste, outcome |-> outcome]
    /\ inputUnchanged
    /\ UNCHANGED <<slateSelection, isLoading, composeVars, selectVars>>

\* handlePaste without its test of the engine's selection
handlePasteNoSelectionCheck(hasOnPaste, outcome) == pasteWithSelection(hasOnPaste, outcome)

\* handlePaste: if (!slateEditor.selection) return
handlePaste(hasOnPaste, outcome) ==
    IF ~slateSelection
    THEN /\ onPasteCalled' = FALSE
         /\ defaultPrevented' = FALSE
         /\ inserted' = <<>>
         /\ settled' = Null
         /\ loadingCalls' = <<>>
         /\ consoleErrors' = 0
         /\ step' = [op |-> "paste", hasOnPaste |-> hasOnPaste, outcome |-> outcome]
         /\ inputUnchanged
         /\ UNCHANGED <<slateSelection, pastes, isLoading, uncaught, composeVars,
                        selectVars>>
    ELSE pasteWithSelection(hasOnPaste, outcome)

\* the promise of the i-th waiting paste settles: its callbacks run
PasteSettles(i) ==
    LET paste == pastes[i]
        chain == PasteChain(paste.outcome) IN
    /\ pastes' = RemoveAt(pastes, i)
    /\ inserted' = IF chain.fragment THEN <<"fragment">> ELSE <<>>
    /\ settled' = [outcome |-> paste.outcome,
                   inserted |-> paste.inserted \o
                                (IF chain.fragment THEN <<"fragment">> ELSE <<>>)]
    /\ loadingCalls' = chain.loading
    /\ isLoading' = IF chain.loading = <<>> THEN isLoading ELSE Last(chain.loading)
    /\ defaultPrevented' = chain.prevented
    /\ consoleErrors' = chain.errors
    /\ onPasteCalled' = FALSE
    /\ uncaught' = FALSE
    /\ step' = [op |-> "settle", outcome |-> paste.outcome]
    /\ inputUnchanged
    /\ UNCHANGED <<slateSelection, composeVars, selectVars>>

-----------------------------------------------------------------------------
(* PortableTextEditable: the value from props, and composing *)

\* the value prop: an array of blocks, or undefined
Arr(blocks) == [array |-> blocks]

PteSpan(k, text) == [_type |-> "span", _key |-> k, text |-> text, marks |-> <<>>]

PteText(k, spanKey, text) ==
    [_type |-> "block", _key |-> k, style |-> "normal", markDefs |-> <<>>,
     children |-> <<PteSpan(spanKey, text)>>]

PteImage(k) == [_type |-> "image", _key |-> k]

\* the keys come from keyGenerator()
placeHolderBlock == PteText("k0", "k1", "")

\* a truthy value that is not an array
NotArray == [object |-> TRUE]

EditorValues ==
    { Undefined,
      Arr(<<>>),
      Arr(<<PteText("a", "a1", "hello")>>),
      Arr(<<PteText("a", "a1", "hello!")>>),
      Arr(<<PteText("a", "a1", "hello"), PteImage("i")>>),
      Arr(<<PteImage("i")>>),
      Arr(<<PteImage("i"), PteText("a", "a1", "hello")>>),
      Arr(<<PteText("a", "a1", "hello"), PteImage("i"), PteText("c", "c1", "")>>),
      NotArray }

IsArray(v) == "array" \in DOMAIN v

\* getValueOrInitialValue without its test of value.length
getValueOrInitialValueAllowEmpty(v, initialValue) ==
    IF v # Undefined /\ IsArray(v) THEN v.array ELSE initialValue

getValueOrInitialValue(v, initialValue) ==
    IF v # Undefined /\ IsArray(v) /\ Len(v.array) > 0 THEN v.array ELSE initialValue

\* the engine's node of a block: a text block keeps its children, any other
\* block becomes a void node that carries the block as its value
toSlateNode(block) ==
    IF block._type = "block"
    THEN block
    ELSE [_type |-> block._type, _key |-> block._key,
          children |-> <<[text |-> ""]>>, value |-> block]

toSlateValue(blocks) == [i \in 1..Len(blocks) |-> toSlateNode(blocks[i])]

\* the reconciliation without its splice of the surplus children
RestoredChildrenNoTruncate(v, children) ==
    LET slateValueFromProps ==
            toSlateValue(getValueOrInitialValue(v, <<placeHolderBlock>>))
        n == Len(slateValueFromProps)
        m == IF Len(children) > n THEN Len(children) ELSE n
    IN  [i \in 1..m |-> IF i > n THEN children[i] ELSE slateValueFromProps[i]]

\* the children the "Restore value from props" effect leaves in the engine
RestoredChildren(v, children) ==
    LET slateValueFromProps ==
            toSlateValue(getValueOrInitialValue(v, <<placeHolderBlock>>))
        n == Len(slateValueFromProps)
        m == IF Len(children) > n THEN Len(children) ELSE n
        \* forEach: replace what differs, push what is missing
        originalChildren ==
            [i \in 1..m |->
                IF i > n THEN children[i]
                ELSE IF i > Len(children) THEN slateValueFromProps[i]
                ELSE IF slateValueFromProps[i] # children[i]
                     THEN slateValueFromProps[i]
                     ELSE children[i]]
    IN  IF v # Undefined
        THEN IF m > n THEN SubSeq(originalChildren, 1, n) ELSE originalChildren
        ELSE slateValueFromProps

\* an effect that takes every child from slateValueFromProps
RestoredIsNewAlways(v, children) ==
    [i \in 1..Len(toSlateValue(getValueOrInitialValue(v, <<placeHolderBlock>>))) |-> TRUE]

\* which of the children the effect leaves are taken from slateValueFromProps:
\* the reconciliation keeps the existing node object that is deep-equal to the
\* new one at its index, the else branch assigns slateValueFromProps whole
RestoredIsNew(v, children) ==
    LET slateValueFromProps ==
            toSlateValue(getValueOrInitialValue(v, <<placeHolderBlock>>))
    IN  [i \in 1..Len(slateValueFromProps) |->
            IF v # Undefined
            THEN i > Len(children) \/ slateValueFromProps[i] # children[i]
            ELSE TRUE]

\* no child is a new node object
NoneNew(children) == [i \in 1..Len(children) |-> FALSE]

\* the effect past its test of isComposing: the children are set and
\* slateEditor.onChange() is called
pushValue(v) ==
    /\ slateChildren' = RestoredChildren(v, slateChildren)
    /\ nodeIsNew' = RestoredIsNew(v, slateChildren)
    /\ slateOnChange' = 1

\* the effect without its test of isComposing
RestoreValueAlways(composing, v) == pushValue(v)

\* the effect on [isComposing, placeHolderBlock, portableTextEditor, slateEditor,
\* value], run with the composing flag and the value of the render it follows
RestoreValue(composing, v) ==
    IF composing
    THEN /\ slateChildren' = slateChildren
         /\ nodeIsNew' = NoneNew(slateChildren)
         /\ slateOnChange' = 0
    ELSE pushValue(v)

\* the parent hands the component a new value: another array or object, or a
\* change to or from undefined
SetPteValue(v) ==
    /\ v = Undefined => pteValue # Undefined
    /\ pteValue' = v
    /\ RestoreValue(isComposing, v)
    /\ step' = [op |-> "value"]
    /\ inputUnchanged
    /\ UNCHANGED <<selectVars, pasteVars, isComposing, debounceTimer, quietFor>>

\* the wait of debounce(() => setIsComposing(false), 1000), in milliseconds
DebounceWait == 1000

\* the stretches of time the model lets pass at once
Elapses == {250, 500}

\* time passes while the debounced callback waits; the callback is due when
\* DebounceWait has passed since the last call
TimePasses(d) ==
    /\ debounceTimer
    /\ quietFor < DebounceWait
    /\ quietFor' = IF quietFor + d > DebounceWait THEN DebounceWait ELSE quietFor + d
    /\ nodeIsNew' = NoneNew(slateChildren)
    /\ slateOnChange' = 0
    /\ step' = [op |-> "time"]
    /\ inputUnchanged
    /\ UNCHANGED <<selectVars, pasteVars, pteValue, slateChildren, isComposing, debounceTimer>>

\* a before-input event that does not restart the debounced callback
handleOnBeforeInputNoRestart ==
    /\ isComposing' = TRUE
    /\ debounceTimer' = TRUE
    /\ quietFor' = quietFor
    /\ IF isComposing
       THEN /\ slateChildren' = slateChildren
            /\ nodeIsNew' = NoneNew(slateChildren)
            /\ slateOnChange' = 0
       ELSE RestoreValue(TRUE, pteValue)
    /\ step' = [op |-> "beforeInput"]
    /\ inputUnchanged
    /\ UNCHANGED <<selectVars, pasteVars, pteValue>>

\* setIsComposing(true); unsetIsComposingDebounced(): the effect runs again when
\* the flag changed, and returns at once
handleOnBeforeInput ==
    /\ isComposing' = TRUE
    /\ debounceTimer' = TRUE
    /\ quietFor' = 0
    /\ IF isComposing
       THEN /\ slateChildren' = slateChildren
            /\ nodeIsNew' = NoneNew(slateChildren)
            /\ slateOnChange' = 0
       ELSE RestoreValue(TRUE, pteValue)
    /\ step' = [op |-> "beforeInput"]
    /\ inputUnchanged
    /\ UNCHANGED <<selectVars, pasteVars, pteValue>>

\* the debounced callback that leaves the effect alone
unsetIsComposingNoEffect ==
    /\ debounceTimer
    /\ quietFor >= DebounceWait
    /\ debounceTimer' = FALSE
    /\ quietFor' = 0
    /\ isComposing' = FALSE
    /\ slateChildren' = slateChildren
    /\ nodeIsNew' = NoneNew(slateChildren)
    /\ slateOnChange' = 0
    /\ step' = [op |-> "composeEnd",
                 stale |-> slateChildren # RestoredChildren(pteValue, slateChildren)]
    /\ inputUnchanged
    /\ UNCHANGED <<selectVars, pasteVars, pteValue>>

\* the debounced callback fires: setIsComposing(false), and the effect runs
\* again because isComposing is one of its dependencies
unsetIsComposing ==
    /\ debounceTimer
    /\ quietFor >= DebounceWait
    /\ debounceTimer' = FALSE
    /\ quietFor' = 0
    /\ isComposing' = FALSE
    /\ RestoreValue(FALSE, pteValue)
    /\ step' = [op |-> "composeEnd",
                 stale |-> slateChildren # RestoredChildren(pteValue, slateChildren)]
    /\ inputUnchanged
    /\ UNCHANGED <<selectVars, pasteVars, pteValue>>

-----------------------------------------------------------------------------
(* PortableTextEditable: the selection from props *)

\* a collapsed selection of the document, by the keys of the block and the span
PtCollapsed(blockKey, spanKey, offset) ==
    [anchor |-> [path |-> <<K(blockKey), N("children"), K(spanKey)>>, offset |-> offset],
     focus |-> [path |-> <<K(blockKey), N("children"), K(spanKey)>>, offset |-> offset]]

\* the selections the parent may hand to the component
PropsSelections ==
    { Undefined,
      PtCollapsed("a", "a1", 0),
      PtCollapsed("a", "a1", 6),
      PtCollapsed("a", "a1", 9),
      PtCollapsed("a", "zz", 3),
      PtCollapsed("c", "c1", 0),
      PtCollapsed("x", "x1", 0) }

\* the ranges the user may give the engine
SlateRanges ==
    { Null, SlateCollapsed(<<0, 0>>, 0), SlateCollapsed(<<0, 0>>, 5),
      SlateCollapsed(<<2, 0>>, 0) }

\* the blocks of a value
BlocksOf(v) == IF v # Undefined /\ IsArray(v) THEN v.array ELSE <<>>

\* the index of the first element with the key, or 0
IndexOfKey(s, key) ==
    IF \E i \in 1..Len(s) : s[i]._key = key
    THEN MinOf({i \in 1..Len(s) : s[i]._key = key})
    ELSE 0

\* toPortableTextRange: the engine's indexes are resolved to keys in the value;
\* null when a path does not resolve
toPortableTextPoint(v, point) ==
    LET b == point.path[1] + 1
        c == point.path[2] + 1
    IN  IF b > Len(BlocksOf(v)) THEN Null
        ELSE IF BlocksOf(v)[b]._type # "block"
        THEN [path |-> <<K(BlocksOf(v)[b]._key)>>, offset |-> 0]
        ELSE IF c > Len(BlocksOf(v)[b].children) THEN Null
        ELSE [path |-> <<K(BlocksOf(v)[b]._key), N("children"),
                         K(BlocksOf(v)[b].children[c]._key)>>,
              offset |-> point.offset]

toPortableTextRange(v, range) ==
    IF range = Null THEN Null
    ELSE IF toPortableTextPoint(v, range.anchor) = Null
            \/ toPortableTextPoint(v, range.focus) = Null
    THEN Null
    ELSE [anchor |-> toPortableTextPoint(v, range.anchor),
          focus |-> toPortableTextPoint(v, range.focus)]

\* normalizeSelection: null when the block is not in the value; a child that is
\* not in the block is clamped to the block's first child, an offset beyond the
\* text to the end of the text
normalizePoint(point, v) ==
    LET b == IndexOfKey(BlocksOf(v), point.path[1]._key) IN
    IF b = 0 THEN Null
    ELSE IF BlocksOf(v)[b]._type # "block"
    THEN [path |-> <<point.path[1]>>, offset |-> 0]
    ELSE LET children == BlocksOf(v)[b].children
             c == IndexOfKey(children, point.path[3]._key)
         IN  IF c = 0
             THEN [path |-> <<point.path[1], N("children"), K(children[1]._key)>>,
                   offset |-> 0]
             ELSE [path |-> point.path,
                   offset |-> IF point.offset > Len(children[c].text)
                              THEN Len(children[c].text)
                              ELSE point.offset]

normalizeSelection(sel, v) ==
    IF normalizePoint(sel.anchor, v) = Null \/ normalizePoint(sel.focus, v) = Null
    THEN Null
    ELSE [anchor |-> normalizePoint(sel.anchor, v),
          focus |-> normalizePoint(sel.focus, v)]

\* toSlateRange: the keys are resolved to indexes in the engine's children by a
\* scan in document order; null when a key does not resolve
toSlatePoint(point, children) ==
    LET b == IndexOfKey(children, point.path[1]._key) IN
    IF b = 0 THEN Null
    ELSE IF children[b]._type # "block"
    THEN [path |-> <<b - 1, 0>>, offset |-> 0]
    ELSE IF Len(point.path) < 3 \/ IndexOfKey(children[b].children, point.path[3]._key) = 0
    THEN Null
    ELSE [path |-> <<b - 1, IndexOfKey(children[b].children, point.path[3]._key) - 1>>,
          offset |-> point.offset]

toSlateRange(sel, children) ==
    IF toSlatePoint(sel.anchor, children) = Null \/ toSlatePoint(sel.focus, children) = Null
    THEN Null
    ELSE [anchor |-> toSlatePoint(sel.anchor, children),
          focus |-> toSlatePoint(sel.focus, children)]

\* the effect without its comparison with the engine's selection
SelectionFromPropsAlways(sel) ==
    IF sel # Undefined
    THEN IF normalizeSelection(sel, pteValue) # Null
         THEN IF toSlateRange(normalizeSelection(sel, pteValue), slateChildren) # Null
              THEN /\ slateRange' =
                        toSlateRange(normalizeSelection(sel, pteValue), slateChildren)
                   /\ selectOnChange' = 1
              ELSE slateRange' = slateRange /\ selectOnChange' = 0
         ELSE slateRange' = slateRange /\ selectOnChange' = 0
    ELSE slateRange' = slateRange /\ selectOnChange' = 0

\* the "Restore selection from props" effect on [slateEditor, propsSelection]
SelectionFromProps(sel) ==
    IF sel # Undefined /\ sel # toPortableTextRange(pteValue, slateRange)
    THEN IF normalizeSelection(sel, pteValue) # Null
         THEN IF toSlateRange(normalizeSelection(sel, pteValue), slateChildren) # Null
              THEN /\ slateRange' =
                        toSlateRange(normalizeSelection(sel, pteValue), slateChildren)
                   /\ selectOnChange' = 1
              ELSE slateRange' = slateRange /\ selectOnChange' = 0
         ELSE slateRange' = slateRange /\ selectOnChange' = 0
    ELSE slateRange' = slateRange /\ selectOnChange' = 0

\* the parent hands the component another selection
SetPropsSelection(sel) ==
    /\ sel = Undefined => propsSelection # Undefined
    /\ propsSelection' = sel
    /\ SelectionFromProps(sel)
    /\ slateSelection' = (slateRange' # Null)
    /\ step' = [op |-> "selection"]
    /\ inputUnchanged
    /\ UNCHANGED <<composeVars, pastes, settled, inserted, loadingCalls, isLoading,
                   defaultPrevented, onPasteCalled, consoleErrors, uncaught>>

\* the user moves or drops the engine's selection
SlateSelect(range) ==
    /\ range # slateRange
    /\ slateRange' = range
    /\ slateSelection' = (range # Null)
    /\ selectOnChange' = 0
    /\ step' = [op |-> "slateSelect"]
    /\ inputUnchanged
    /\ UNCHANGED <<composeVars, propsSelection, pastes, settled, inserted, loadingCalls,
                   isLoading, defaultPrevented, onPasteCalled, consoleErrors, uncaught>>

-----------------------------------------------------------------------------
(* PortableTextInput: the markers handed to the renderers *)

\* how many markers the parent form hands to the component
MaxMarkers == 2

Marker(path) == [type |-> "validation", path |-> path]

\* the paths markers may carry
MarkerPaths ==
    { <<>>,
      <<K("b2")>>,
      <<K("b2"), N("caption")>>,
      <<K("b1"), N("children"), K("c1")>>,
      <<K("b9"), N("children"), K("c1")>>,
      <<K("b1"), N("markDefs"), K("m1")>>,
      <<K("b1"), N("children"), K("m1")>>,
      <<K("b1"), N("markDefs"), K("c1"), N("href")>> }

\* the annotations of a text block, by the keys its spans carry as marks
AnnotationKeys(block) ==
    UNION {block.children[i].marks :
             i \in {j \in 1..Len(block.children) : "marks" \in DOMAIN block.children[j]}}

\* markers.filter(marker => isKeySegment(marker.path[0]) && marker.path[0]._key === block._key)
blockMarkers(block) ==
    LET Test(marker) == /\ isKeySegment(At(marker.path, 0))
                        /\ At(marker.path, 0)._key = block._key
    IN  SelectSeq(markers, Test)

\* markers.filter(marker => isKeySegment(marker.path[2]) && marker.path[2]._key === child._key),
\* in renderChild and in renderAnnotation
childMarkers(child) ==
    LET Test(marker) == /\ isKeySegment(At(marker.path, 2))
                        /\ At(marker.path, 2)._key = child._key
    IN  SelectSeq(markers, Test)

orchestratorUnchanged ==
    UNCHANGED <<value, focusPath, hasFocus, isActive, objectEditData, initialSelection,
                selection, timeouts, selectionDirty, crashed, onFocusCalls,
                onChangeCalls, patcheNext, referenceVars, fullscreenVars, fieldVars>>

\* the parent form hands the component other markers
SetMarkers(ms) ==
    /\ ms # markers
    /\ markers' = ms
    /\ rendered' = Null
    /\ step' = [op |-> "markers"]
    /\ orchestratorUnchanged
    /\ UNCHANGED editableVars

\* renderBlock: a text block is rendered by its style, an object block as a
\* BlockObject with the markers of the block
renderBlock(b) ==
    /\ rendered' = IF value[b]._type = "block"
                   THEN [kind |-> "textBlock", block |-> value[b]._key,
                         key |-> value[b]._key, markers |-> <<>>]
                   ELSE [kind |-> "blockObject", block |-> value[b]._key,
                         key |-> value[b]._key, markers |-> blockMarkers(value[b])]
    /\ step' = [op |-> "renderBlock"]
    /\ orchestratorUnchanged
    /\ UNCHANGED <<editableVars, markers>>

\* renderChild: a span is rendered as text, any other child as an InlineObject
renderChild(b, c) ==
    /\ value[b]._type = "block"
    /\ c \in 1..Len(value[b].children)
    /\ rendered' = IF value[b].children[c]._type = "span"
                   THEN [kind |-> "span", block |-> value[b]._key,
                         key |-> value[b].children[c]._key, markers |-> <<>>]
                   ELSE [kind |-> "inlineObject", block |-> value[b]._key,
                         key |-> value[b].children[c]._key,
                         markers |-> childMarkers(value[b].children[c])]
    /\ step' = [op |-> "renderChild"]
    /\ orchestratorUnchanged
    /\ UNCHANGED <<editableVars, markers>>

\* renderAnnotation, for an annotation of the block b
renderAnnotation(b, annotationKey) ==
    /\ value[b]._type = "block"
    /\ annotationKey \in AnnotationKeys(value[b])
    /\ rendered' = [kind |-> "annotation", block |-> value[b]._key,
                    key |-> annotationKey, markers |-> childMarkers(K(annotationKey))]
    /\ step' = [op |-> "renderAnnotation"]
    /\ orchestratorUnchanged
    /\ UNCHANGED <<editableVars, markers>>

-----------------------------------------------------------------------------
(* CrossDatasetReferenceInput *)

\* the field the input edits
fieldDefinition ==
    [name |-> "productReference", type |-> "crossDatasetReference",
     dataset |-> "products", projectId |-> "abcxyz"]

\* the value the input is given
ReferenceValue ==
    [_type |-> "productReference", _ref |-> "some-product", _dataset |-> "products",
     _projectId |-> "abcxyz"]

\* the hits of the search
SearchHits ==
    {[id |-> "one", type |-> "product"], [id |-> "two", type |-> "product"],
     [id |-> "three", type |-> "product"]}

\* the props the parent form leaves unchanged in a step of the input
referenceUnchanged ==
    UNCHANGED <<value, focusPath, hasFocus, isActive, objectEditData, initialSelection,
                selection, timeouts, selectionDirty, crashed, onFocusCalls,
                onChangeCalls, patcheNext, editableVars, renderVars, fullscreenVars,
                fieldVars>>

\* the parent form hands the input a value or none
SetRefValue(v) ==
    /\ v # refValue
    /\ refValue' = v
    /\ refOnChange' = <<>>
    /\ refOnPathFocus' = <<>>
    /\ step' = [op |-> "refValue"]
    /\ referenceUnchanged
    /\ UNCHANGED <<refFocusPath, refPending>>

\* the parent form hands the input a focus path
SetRefFocusPath(path) ==
    /\ path # refFocusPath
    /\ refFocusPath' = path
    /\ refOnChange' = <<>>
    /\ refOnPathFocus' = <<>>
    /\ step' = [op |-> "refFocusPath"]
    /\ referenceUnchanged
    /\ UNCHANGED <<refValue, refPending>>

\* the preview with its menu is shown for a value, unless the focus is on _ref
PreviewShown == refValue # Undefined /\ refFocusPath # <<"_ref">>

\* a 'clear' that also asks for the focus
handleClearAndFocus ==
    /\ PreviewShown
    /\ refOnChange' = <<[type |-> "unset", path |-> <<>>]>>
    /\ refOnPathFocus' = <<<<"_ref">>>>
    /\ step' = [op |-> "refClear"]
    /\ referenceUnchanged
    /\ UNCHANGED <<refValue, refFocusPath, refPending>>

\* the menu item 'clear'
handleClear ==
    /\ PreviewShown
    /\ refOnChange' = <<[type |-> "unset", path |-> <<>>]>>
    /\ refOnPathFocus' = <<>>
    /\ step' = [op |-> "refClear"]
    /\ referenceUnchanged
    /\ UNCHANGED <<refValue, refFocusPath, refPending>>

\* the menu item 'replace'
handleReplace ==
    /\ PreviewShown
    /\ refOnChange' = <<>>
    /\ refOnPathFocus' = <<<<"_ref">>>>
    /\ step' = [op |-> "refReplace"]
    /\ referenceUnchanged
    /\ UNCHANGED <<refValue, refFocusPath, refPending>>

\* the change a chosen hit is reported with
SetReference(hit) ==
    [patches |-> << [type |-> "set", path |-> <<>>,
                     value |-> [_type |-> fieldDefinition.name, _ref |-> hit.id,
                                _dataset |-> fieldDefinition.dataset,
                                _projectId |-> fieldDefinition.projectId]] >>]

\* a click on a hit that reports the change before it returns
selectHitAtOnce(hit) ==
    /\ ~PreviewShown
    /\ refPending = Null
    /\ refPending' = Null
    /\ refOnChange' = <<SetReference(hit)>>
    /\ refOnPathFocus' = <<>>
    /\ step' = [op |-> "refClickHit"]
    /\ referenceUnchanged
    /\ UNCHANGED <<refValue, refFocusPath>>

\* a click on a hit of the autocomplete: the option defers its select
selectHit(hit) ==
    /\ ~PreviewShown
    /\ refPending = Null
    /\ refPending' = hit
    /\ refOnChange' = <<>>
    /\ refOnPathFocus' = <<>>
    /\ step' = [op |-> "refClickHit"]
    /\ referenceUnchanged
    /\ UNCHANGED <<refValue, refFocusPath>>

\* the deferred select of the autocomplete runs: handleChange
handleChange ==
    /\ refPending # Null
    /\ refPending' = Null
    /\ refOnChange' = <<SetReference(refPending)>>
    /\ refOnPathFocus' = <<>>
    /\ step' = [op |-> "refSelected", hit |-> refPending]
    /\ referenceUnchanged
    /\ UNCHANGED <<refValue, refFocusPath>>

-----------------------------------------------------------------------------
(* PopoverEditDialog *)

\* how many scrolls of the scroll element the model follows
MaxScrolls == 8

\* event.key of the keydown events on the window
Keys == {"Escape", "Enter", "a"}

\* the dialog touches none of the other components
popoverUnchanged ==
    UNCHANGED <<inputVars, editableVars, renderVars, referenceVars, fullscreenVars,
                tagsVars>>

\* a handleClose without the look at isTopLayer
popoverHandleCloseAlways == onCloseCalls' = 1

\* Content.handleClose, with the number of calls of onClose it makes
\*   if (isTopLayer) onClose()
popoverHandleClose == onCloseCalls' = IF isTopLayer THEN 1 ELSE 0

\* another layer opens above the dialog, or the layers above it close
SetTopLayer(b) ==
    /\ b # isTopLayer
    /\ isTopLayer' = b
    /\ onCloseCalls' = 0
    /\ step' = [op |-> "setTopLayer"]
    /\ UNCHANGED forceUpdate
    /\ popoverUnchanged

\* <Button icon={CloseIcon} onClick={handleClose} />
ClickCloseButton ==
    /\ popoverHandleClose
    /\ step' = [op |-> "closeButton"]
    /\ UNCHANGED <<isTopLayer, forceUpdate>>
    /\ popoverUnchanged

\* useClickOutside(handleClose, [rootElement], boundaryElement)
ClickOutside ==
    /\ popoverHandleClose
    /\ step' = [op |-> "clickOutside"]
    /\ UNCHANGED <<isTopLayer, forceUpdate>>
    /\ popoverUnchanged

\* Content.handleKeyDown, the listener of the window's keydown events
popoverHandleKeyDown(key) ==
    /\ IF key = "Escape" THEN popoverHandleClose ELSE onCloseCalls' = 0
    /\ step' = [op |-> "popoverKeyDown", key |-> key]
    /\ UNCHANGED <<isTopLayer, forceUpdate>>
    /\ popoverUnchanged

\* the scroll listener of scrollElement
handleScrollOrResize ==
    /\ forceUpdate < MaxScrolls
    /\ forceUpdate' = forceUpdate + 1
    /\ onCloseCalls' = 0
    /\ step' = [op |-> "scroll"]
    /\ UNCHANGED isTopLayer
    /\ popoverUnchanged

-----------------------------------------------------------------------------
(* TagsTextField.  A text is the sequence of its characters. *)

\* how many tags the parent hands the field, and how many characters the model
\* lets the input hold
MaxTags == 2

MaxText == 4

\* the characters the user types
Chars == {"a", "b"}

\* the tags of props.tags
TagValues == {<<"a">>, <<"a", "b">>}

TagLists == UNION {[1..n -> TagValues] : n \in 0..MaxTags}

\* event.key of the key events that reach the input
PressKeys == Chars \cup {"Enter"}

UpKeys == Chars \cup {"Enter", "Backspace"}

\* the field touches none of the other components
tagsUnchanged ==
    UNCHANGED <<inputVars, editableVars, renderVars, referenceVars, fullscreenVars,
                popoverVars>>

\* addTag(title) and removeTag(i): the calls handed on to the props
addTag(title) == <<title>>

removeTag(i) == <<i>>

\* the parent hands the field other tags
SetTags(ts) ==
    /\ ts # tags
    /\ tags' = ts
    /\ addTagCalls' = <<>>
    /\ removeTagCalls' = <<>>
    /\ step' = [op |-> "setTags"]
    /\ UNCHANGED <<inputValue, isFocused, length>>
    /\ tagsUnchanged

\* handleKeyDown, and then the input's own handling of the key: Backspace
\* deletes the last character
handleKeyDown(key) ==
    /\ isFocused
    /\ length' = IF Len(inputValue) > 3 THEN Len(inputValue) ELSE 3
    /\ inputValue' = IF key = "Backspace" /\ inputValue # <<>>
                        THEN SubSeq(inputValue, 1, Len(inputValue) - 1)
                        ELSE inputValue
    /\ addTagCalls' = <<>>
    /\ removeTagCalls' = <<>>
    /\ step' = [op |-> "tagsKeyDown", key |-> key]
    /\ UNCHANGED <<tags, isFocused>>
    /\ tagsUnchanged

\* handleKeyUp
\*   if (event.key == 'Backspace' && value == '') this.removeTag(this.props.tags.length - 1)
handleKeyUp(key) ==
    /\ isFocused
    /\ removeTagCalls' = IF key = "Backspace" /\ inputValue = <<>>
                            THEN removeTag(Len(tags) - 1)
                            ELSE <<>>
    /\ addTagCalls' = <<>>
    /\ step' = [op |-> "tagsKeyUp", key |-> key]
    /\ UNCHANGED <<tags, inputValue, isFocused, length>>
    /\ tagsUnchanged

\* handleKeyPress, and then the input's own handling of the key: a character
\* is appended
handleKeyPress(key) ==
    /\ isFocused
    /\ key \in Chars => Len(inputValue) < MaxText
    /\ IF key = "Enter"
          THEN /\ addTagCalls' = addTag(inputValue)
               /\ inputValue' = <<>>
          ELSE /\ addTagCalls' = <<>>
               /\ inputValue' = Append(inputValue, key)
    /\ removeTagCalls' = <<>>
    /\ step' = [op |-> "tagsKeyPress", key |-> key]
    /\ UNCHANGED <<tags, isFocused, length>>
    /\ tagsUnchanged

\* handleFocus
handleFocus ==
    /\ ~isFocused
    /\ isFocused' = TRUE
    /\ addTagCalls' = <<>>
    /\ removeTagCalls' = <<>>
    /\ step' = [op |-> "tagsFocus"]
    /\ UNCHANGED <<tags, inputValue, length>>
    /\ tagsUnchanged

\* handleSetFocus, the click handler of the content: this._input.focus(), and
\* with it the focus event of the input
handleSetFocus ==
    /\ isFocused' = TRUE
    /\ addTagCalls' = <<>>
    /\ removeTagCalls' = <<>>
    /\ step' = [op |-> "tagsSetFocus"]
    /\ UNCHANGED <<tags, inputValue, length>>
    /\ tagsUnchanged

\* a handleBlur that adds the pending text whatever it is
handleBlurAlwaysAdds ==
    /\ isFocused
    /\ addTagCalls' = addTag(inputValue)
    /\ inputValue' = <<>>
    /\ isFocused' = FALSE
    /\ removeTagCalls' = <<>>
    /\ step' = [op |-> "tagsBlur"]
    /\ UNCHANGED <<tags, length>>
    /\ tagsUnchanged

\* handleBlur
handleBlur ==
    /\ isFocused
    /\ IF inputValue # <<>>
          THEN /\ addTagCalls' = addTag(inputValue)
               /\ inputValue' = <<>>
          ELSE /\ addTagCalls' = <<>>
               /\ inputValue' = inputValue
    /\ isFocused' = FALSE
    /\ removeTagCalls' = <<>>
    /\ step' = [op |-> "tagsBlur"]
    /\ UNCHANGED <<tags, length>>
    /\ tagsUnchanged

\* a click on the clear link of the tag at index i: removeTag.bind(this, i); the
\* click then reaches the content, whose handler focuses the input
ClickClearTag(i) ==
    /\ removeTagCalls' = removeTag(i)
    /\ isFocused' = TRUE
    /\ addTagCalls' = <<>>
    /\ step' = [op |-> "tagsClear"]
    /\ UNCHANGED <<tags, inputValue, length>>
    /\ tagsUnchanged

-----------------------------------------------------------------------------
(* PortableTextInput: the fullscreen toggle *)

\* the calls of a handler that asks for the toggle first
ToggleCallsToggleFirst(sel) ==
    << [call |-> "onToggleFullscreen"],
       [call |-> "setInitialSelection", arg |-> sel],
       [call |-> "focus"] >>

\* the calls of handleToggleFullscreen, in the order it makes them
ToggleCalls(sel) ==
    << [call |-> "setInitialSelection", arg |-> sel],
       [call |-> "onToggleFullscreen"],
       [call |-> "focus"] >>

\* handleToggleFullscreen.  The parent answers onToggleFullscreen() with the
\* other value of the isFullscreen prop.  initialSelection is a dependency of
\* the selection effect: the effect runs again when the state holds another
\* object, which a selection equal to the recorded one may or may not be.
handleToggleFullscreen ==
    /\ ~crashed
    /\ initialSelection' = selection
    /\ toggleCalls' = ToggleCalls(selection)
    /\ isFullscreen' = ~isFullscreen
    /\ IF initialSelection # selection
          THEN selectionDirty' = TRUE
          ELSE selectionDirty' \in {selectionDirty, TRUE}
    /\ NoCalls
    /\ step' = [op |-> "toggleFullscreen"]
    /\ UNCHANGED <<value, focusPath, hasFocus, isActive, objectEditData, selection,
                   timeouts, crashed>>
    /\ UNCHANGED <<editableVars, renderVars, referenceVars, fieldVars>>

-----------------------------------------------------------------------------
(* The specification *)

Init ==
    /\ value \in Documents
    /\ focusPath = <<>>
    /\ hasFocus = FALSE
    /\ isActive = FALSE
    /\ objectEditData = Null
    /\ initialSelection = Undefined
    /\ selection = Undefined
    /\ timeouts = <<>>
    /\ selectionDirty = FALSE
    /\ crashed = FALSE
    /\ onFocusCalls = <<>>
    /\ onChangeCalls = <<>>
    /\ patcheNext = <<>>
    /\ step = [op |-> "init"]
    /\ slateSelection = FALSE
    /\ pastes = <<>>
    /\ settled = Null
    /\ inserted = <<>>
    /\ loadingCalls = <<>>
    /\ isLoading = FALSE
    /\ defaultPrevented = FALSE
    /\ onPasteCalled = FALSE
    /\ consoleErrors = 0
    /\ uncaught = FALSE
    /\ pteValue = Undefined
    /\ slateChildren = toSlateValue(getValueOrInitialValue(Undefined, <<placeHolderBlock>>))
    /\ isComposing = FALSE
    /\ debounceTimer = FALSE
    /\ slateOnChange = 0
    /\ quietFor = 0
    /\ nodeIsNew = <<FALSE>>
    /\ propsSelection = Undefined
    /\ slateRange = Null
    /\ selectOnChange = 0
    /\ markers = <<>>
    /\ rendered = Null
    /\ refValue = Undefined
    /\ refFocusPath = <<>>
    /\ refPending = Null
    /\ refOnChange = <<>>
    /\ refOnPathFocus = <<>>
    /\ isFullscreen = FALSE
    /\ toggleCalls = <<>>
    /\ isTopLayer = TRUE
    /\ forceUpdate = 0
    /\ onCloseCalls = 0
    /\ tags = <<>>
    /\ inputValue = <<>>
    /\ isFocused = FALSE
    /\ length = 4
    /\ addTagCalls = <<>>
    /\ removeTagCalls = <<>>

Next ==
    \/ \E path \in FocusPaths : SetFocusPath(path)
    \/ Tick
    \/ \E h \in BOOLEAN : SetHasFocus(h)
    \/ handleActivate
    \/ SelectionEffect
    \/ handleClose

Spec == Init /\ [][Next]_vars

\* The change proxy reads and writes none of the orchestrator's state: its inputs
\* are enumerated in a specification of their own.
NextChange ==
    \E patchEvent \in PatchEvents, path \in ObjectPaths :
        handleFormBuilderEditObjectChange(patchEvent, path)

SpecChange == Init /\ [][NextChange]_vars

\* The focus proxy of the nested form, with the sessions that open and close
\* around it.
ProxyFocusPaths ==
    { <<>>,
      <<K("b2"), N("caption")>>,
      <<K("b1"), N("children"), K("c1"), N("symbol")>>,
      <<K("b1"), N("markDefs"), K("m1")>> }

NextFocusProxy ==
    \/ \E path \in ProxyFocusPaths : SetFocusPath(path)
    \/ Tick
    \/ handleClose
    \/ \E nextPath \in NextPathArgs : handleEditObjectFormBuilderFocus(nextPath)

SpecFocusProxy == Init /\ [][NextFocusProxy]_vars

\* Pastes into the editable, and the settling of the handler's promises in any
\* order.
NextPaste ==
    \/ \E has \in BOOLEAN : SetSlateSelection(has)
    \/ \E hasOnPaste \in BOOLEAN, outcome \in PasteOutcomes :
           handlePaste(hasOnPaste, outcome)
    \/ \E i \in 1..Len(pastes) : PasteSettles(i)

SpecPaste == Init /\ [][NextPaste]_vars

\* The value prop, before-input events and the debounced end of composing.
NextCompose ==
    \/ \E v \in EditorValues : SetPteValue(v)
    \/ handleOnBeforeInput
    \/ \E d \in Elapses : TimePasses(d)
    \/ unsetIsComposing

SpecCompose == Init /\ [][NextCompose]_vars

\* The selection prop, with the values and the engine selections it meets; a
\* value that arrives while composing leaves the engine's children behind.
NextSelection ==
    \/ \E sel \in PropsSelections : SetPropsSelection(sel)
    \/ \E range \in SlateRanges : SlateSelect(range)
    \/ \E v \in EditorValues : SetPteValue(v)
    \/ handleOnBeforeInput

SpecSelection == Init /\ [][NextSelection]_vars

\* The markers prop and the render callbacks.
MarkerLists ==
    UNION {[1..n -> {Marker(path) : path \in MarkerPaths}] : n \in 0..MaxMarkers}

NextMarkers ==
    \/ \E ms \in MarkerLists : SetMarkers(ms)
    \/ \E b \in 1..Len(value) : renderBlock(b)
    \/ \E b \in 1..Len(value), c \in 1..4 : renderChild(b, c)
    \/ \E b \in 1..Len(value), annotationKey \in {"m1"} : renderAnnotation(b, annotationKey)

SpecMarkers == Init /\ [][NextMarkers]_vars

\* The selections of the user and the focus events they cause, around sessions
\* that open and close.
SelectionFocusPaths ==
    ProxyFocusPaths \cup {<<K("b1"), N("children"), K("s1")>>}

NextSelectionFocus ==
    \/ \E path \in SelectionFocusPaths : SetFocusPath(path)
    \/ Tick
    \/ handleClose
    \/ \E sel \in UserSelections : UserSelects(sel)
    \/ SelectionEffect

SpecSelectionFocus == Init /\ [][NextSelectionFocus]_vars

\* The reference input, its menu and its autocomplete.
NextReference ==
    \/ \E v \in {Undefined, ReferenceValue} : SetRefValue(v)
    \/ \E path \in {<<>>, <<"_ref">>} : SetRefFocusPath(path)
    \/ handleClear
    \/ handleReplace
    \/ \E hit \in SearchHits : selectHit(hit)
    \/ handleChange

SpecReference == Init /\ [][NextReference]_vars

\* Time passes and a due callback runs.
SpecComposeLive ==
    /\ SpecCompose
    /\ WF_vars(\E d \in Elapses : TimePasses(d))
    /\ WF_vars(unsetIsComposing)

\* The popover dialog with the layers above it, the clicks and the keys.
NextPopover ==
    \/ \E b \in BOOLEAN : SetTopLayer(b)
    \/ ClickCloseButton
    \/ ClickOutside
    \/ \E key \in Keys : popoverHandleKeyDown(key)
    \/ handleScrollOrResize

SpecPopover == Init /\ [][NextPopover]_vars

\* The tags field with its key events, focus, blur and clicks.
NextTags ==
    \/ \E ts \in TagLists : SetTags(ts)
    \/ \E key \in UpKeys : handleKeyDown(key)
    \/ \E key \in PressKeys : handleKeyPress(key)
    \/ \E key \in UpKeys : handleKeyUp(key)
    \/ handleFocus
    \/ handleSetFocus
    \/ handleBlur
    \/ \E i \in 0..(Len(tags) - 1) : ClickClearTag(i)

SpecTags == Init /\ [][NextTags]_vars


\* The fullscreen toggle among the selections of the user and the sessions that
\* open and close.
NextFullscreen ==
    \/ \E path \in ProxyFocusPaths : SetFocusPath(path)
    \/ Tick
    \/ handleClose
    \/ \E sel \in UserSelections : UserSelects(sel)
    \/ SelectionEffect
    \/ handleToggleFullscreen

SpecFullscreen == Init /\ [][NextFullscreen]_vars

\* Activation among focus and blur, sessions that open and close, value updates
\* and fullscreen toggles.
NextActive ==
    \/ \E path \in ProxyFocusPaths : SetFocusPath(path)
    \/ Tick
    \/ \E h \in BOOLEAN : SetHasFocus(h)
    \/ handleActivate
    \/ handleClose
    \/ \E v \in Documents : SetValue(v)
    \/ handleToggleFullscreen

SpecActive == Init /\ [][NextActive]_vars

-----------------------------------------------------------------------------
(* Properties *)

\* the block of the editor value with the given key, by its key alone
BlockOfKey(k) == CHOOSE blk \in {value[i] : i \in 1..Len(value)} : blk._key = k
HasBlockOfKey(k) == \E i \in 1..Len(value) : value[i]._key = k

\* does child i of the block reference the annotation key
References(blk, i, m) == "marks" \in DOMAIN blk.children[i] /\ m \in blk.children[i].marks

\* the path of the first child of block b, in document order, that references m
FirstSpanPath(b, m) ==
    LET blk == BlockOfKey(b)
        i == CHOOSE n \in 1..Len(blk.children) :
                 References(blk, n, m) /\ \A j \in 1..(n - 1) : ~References(blk, j, m)
    IN  <<[_key |-> b], [name |-> "children"], [_key |-> blk.children[i]._key]>>

\* a focus path [{_key: b}, 'markDefs', {_key: m}, ...] whose block exists in the
\* editor value and has a span that references m
ResolvableAnnotationPath(p) ==
    /\ Len(p) >= 3
    /\ "_key" \in DOMAIN p[1]
    /\ p[2] = [name |-> "markDefs"]
    /\ "_key" \in DOMAIN p[3]
    /\ HasBlockOfKey(p[1]._key)
    /\ "children" \in DOMAIN BlockOfKey(p[1]._key)
    /\ \E i \in 1..Len(BlockOfKey(p[1]._key).children) :
           References(BlockOfKey(p[1]._key), i, p[3]._key)

CollapsedAt(sel, p) ==
    /\ sel # Undefined
    /\ sel.anchor = [path |-> p, offset |-> 0]
    /\ sel.focus = [path |-> p, offset |-> 0]

SecondIs(p, s) == Len(p) >= 2 /\ p[2] = [name |-> s]

\* C1: a focus path [{_key:b},'markDefs',{_key:m}] received while no object is open,
\* with b in the editor value and m referenced by a span of b, in the same step
\* makes isActive true, collapses the engine selection at offset 0 on the path of
\* the first such span, and opens the annotation session on that span path with
\* the first three segments of the focus path as formBuilderPath; nothing is deferred.
C1_AnnotationOpensAtOnce ==
    [][ (step'.op = "focusPath" /\ objectEditData = Null
            /\ ResolvableAnnotationPath(focusPath'))
        => LET spanPath == FirstSpanPath(focusPath'[1]._key, focusPath'[3]._key)
           IN  /\ isActive' = TRUE
               /\ CollapsedAt(selection', spanPath)
               /\ objectEditData' = [kind |-> "annotation",
                                     editorPath |-> spanPath,
                                     formBuilderPath |-> SubSeq(focusPath', 1, 3)]
               /\ timeouts' = timeouts ]_vars

C1_Witness ==
    /\ step.op = "focusPath"
    /\ focusPath = <<[_key |-> "b1"], [name |-> "markDefs"], [_key |-> "m1"]>>
    /\ value = Doc1
    /\ objectEditData # Null
    /\ objectEditData.kind = "annotation"
    /\ objectEditData.editorPath = <<[_key |-> "b1"], [name |-> "children"], [_key |-> "s2"]>>
    /\ CollapsedAt(selection, objectEditData.editorPath)
    /\ isActive

\* an object block of the editor value with the given key
IsObjectBlock(k) == HasBlockOfKey(k) /\ BlockOfKey(k)._type # "block"

BlockObjectData(p) ==
    [kind |-> "blockObject", editorPath |-> <<p[1]>>, formBuilderPath |-> <<p[1]>>]

InlineObjectData(p) ==
    [kind |-> "inlineObject", editorPath |-> <<p[1], p[2], p[3]>>,
     formBuilderPath |-> <<p[1], p[2], p[3]>>]

\* C2 as claimed: the one-segment focus path [blockKey] of an object block,
\* received while no object is open, sets the engine selection to [{_key:blockKey}]
\* at once and schedules the opening of a blockObject session.
C2_Original ==
    [][ (step'.op = "focusPath" /\ objectEditData = Null
            /\ Len(focusPath') = 1 /\ "_key" \in DOMAIN focusPath'[1]
            /\ IsObjectBlock(focusPath'[1]._key))
        => /\ CollapsedAt(selection', focusPath')
           /\ timeouts' = Append(timeouts, BlockObjectData(focusPath')) ]_vars

\* C2 as amended: a focus path of the block key followed by at least one more
\* segment (the second neither 'children' nor 'markDefs'), for an object block and
\* received while no object is open, sets the engine selection to [{_key:blockKey}]
\* at once and yields kind 'blockObject' when the deferred tick runs; the
\* one-segment path [blockKey] causes no transition.
C2_BlockObjectOpensAfterTick ==
    [][ /\ (step'.op = "focusPath" /\ objectEditData = Null
               /\ Len(focusPath') > 1 /\ "_key" \in DOMAIN focusPath'[1]
               /\ IsObjectBlock(focusPath'[1]._key)
               /\ ~SecondIs(focusPath', "children") /\ ~SecondIs(focusPath', "markDefs"))
           => /\ CollapsedAt(selection', <<focusPath'[1]>>)
              /\ objectEditData' = Null
              /\ timeouts' = Append(timeouts, BlockObjectData(focusPath'))
        /\ (step'.op = "focusPath" /\ objectEditData = Null /\ Len(focusPath') = 1)
           => UNCHANGED <<selection, objectEditData, isActive, timeouts>>
        /\ (step'.op = "tick") => objectEditData' = Head(timeouts) ]_vars

C2_Witness ==
    /\ step.op = "tick"
    /\ focusPath = <<[_key |-> "b2"], [name |-> "caption"]>>
    /\ objectEditData # Null
    /\ objectEditData.kind = "blockObject"
    /\ objectEditData.editorPath = <<[_key |-> "b2"]>>
    /\ CollapsedAt(selection, <<[_key |-> "b2"]>>)

\* C3: for a focus path received while no object is open whose second segment is
\* not 'markDefs': with second segment 'children' and more than 3 segments the
\* session that opens has kind 'inlineObject' and editorPath = formBuilderPath =
\* the first three segments; with a second segment other than 'children' and more
\* than 1 segment it has kind 'blockObject' and editorPath = formBuilderPath = the
\* first segment.
C3_OpenedSessionKindAndPaths ==
    [][ /\ (step'.op = "focusPath" /\ objectEditData = Null
               /\ SecondIs(focusPath', "children") /\ Len(focusPath') > 3)
           => timeouts' = Append(timeouts, InlineObjectData(focusPath'))
        /\ (step'.op = "focusPath" /\ objectEditData = Null
               /\ ~SecondIs(focusPath', "children") /\ ~SecondIs(focusPath', "markDefs")
               /\ Len(focusPath') > 1)
           => timeouts' = Append(timeouts, BlockObjectData(focusPath'))
        /\ (step'.op = "tick")
           => /\ objectEditData' = Head(timeouts)
              /\ objectEditData'.kind \in {"inlineObject", "blockObject"}
              /\ objectEditData'.editorPath = objectEditData'.formBuilderPath ]_vars

C3_Witness ==
    /\ step.op = "tick"
    /\ objectEditData # Null
    /\ objectEditData.kind = "inlineObject"
    /\ objectEditData.editorPath = <<[_key |-> "b1"], [name |-> "children"], [_key |-> "c1"]>>
    /\ objectEditData.formBuilderPath = objectEditData.editorPath

\* a focus path on which the block-object or inline-object transition fires
ObjectTransitionPath(p) ==
    \/ SecondIs(p, "children") /\ Len(p) > 3
    \/ ~SecondIs(p, "children") /\ ~SecondIs(p, "markDefs") /\ Len(p) > 1

ObjectPathOf(p) == IF SecondIs(p, "children") THEN <<p[1], p[2], p[3]>> ELSE <<p[1]>>

\* C4: when the block-object or inline-object transition fires, the same step sets
\* isActive and the engine selection to the object path while objectEditData stays
\* null; the session is set only by the tick, from an open scheduled by a step
\* that had set the selection, so whenever an open is pending or an object session
\* is open the engine selection has been set.
C4_SelectionBeforeDeferredOpen ==
    [][ /\ (step'.op = "focusPath" /\ objectEditData = Null
               /\ ObjectTransitionPath(focusPath'))
           => /\ isActive' = TRUE
              /\ CollapsedAt(selection', ObjectPathOf(focusPath'))
              /\ objectEditData' = Null
              /\ Len(timeouts') = Len(timeouts) + 1
              /\ timeouts'[Len(timeouts')].editorPath = ObjectPathOf(focusPath')
        /\ (objectEditData' # objectEditData /\ objectEditData' # Null
               /\ objectEditData'.kind \in {"blockObject", "inlineObject"})
           => /\ step'.op = "tick"
              /\ timeouts # <<>>
              /\ objectEditData' = Head(timeouts)
        /\ (timeouts' # <<>>) => (selection' # Undefined /\ isActive') ]_vars

C4_Witness ==
    /\ step.op = "focusPath"
    /\ focusPath = <<[_key |-> "b1"], [name |-> "children"], [_key |-> "c1"], [name |-> "symbol"]>>
    /\ timeouts # <<>>
    /\ objectEditData = Null
    /\ isActive
    /\ CollapsedAt(selection, timeouts[Len(timeouts)].editorPath)

\* C5: while an object session is open, a new focus path causes no transition:
\* objectEditData, isActive and the engine selection stay as they are and no
\* deferred open is scheduled.
C5_NoTransitionWhileOpen ==
    [][ (step'.op = "focusPath" /\ objectEditData # Null)
        => UNCHANGED <<objectEditData, isActive, selection, timeouts>> ]_vars

C5_Witness ==
    /\ step.op = "focusPath"
    /\ focusPath = <<[_key |-> "b2"], [name |-> "caption"]>>
    /\ objectEditData # Null
    /\ objectEditData.kind = "annotation"
    /\ timeouts = <<>>
    /\ ~CollapsedAt(selection, <<[_key |-> "b2"]>>)

\* a plain text focus: no markDefs path, no 'children' path longer than 3, no
\* other path longer than 1
PlainTextFocus(p) ==
    /\ ~SecondIs(p, "markDefs")
    /\ ~(SecondIs(p, "children") /\ Len(p) > 3)
    /\ ~(~SecondIs(p, "children") /\ Len(p) > 1)

\* C6: a plain text focus path causes no transition: objectEditData stays null,
\* isActive and the engine selection are not changed, no deferred open is scheduled.
C6_PlainTextFocusNoTransition ==
    [][ (step'.op = "focusPath" /\ objectEditData = Null /\ PlainTextFocus(focusPath'))
        => /\ objectEditData' = Null
           /\ UNCHANGED <<isActive, selection, timeouts>> ]_vars

C6_Witness ==
    /\ step.op = "focusPath"
    /\ focusPath = <<[_key |-> "b1"], [name |-> "children"], [_key |-> "s1"]>>
    /\ objectEditData = Null
    /\ ~isActive
    /\ selection = Undefined
    /\ timeouts = <<>>

\* the session addresses a text block, or a text span of a text block
AddressesText(data) ==
    LET p == data.editorPath
    IN  /\ "_key" \in DOMAIN p[1]
        /\ HasBlockOfKey(p[1]._key)
        /\ BlockOfKey(p[1]._key)._type = "block"
        /\ \/ data.kind = "blockObject"
           \/ /\ data.kind = "inlineObject"
              /\ \E i \in 1..Len(BlockOfKey(p[1]._key).children) :
                     /\ BlockOfKey(p[1]._key).children[i]._key = p[3]._key
                     /\ BlockOfKey(p[1]._key).children[i]._type = "span"

\* C7: a blockObject or inlineObject session is open only on a non-text object,
\* never on a text block or a text span.
C7_SessionsOnlyOnObjects ==
    (objectEditData # Null /\ objectEditData.kind \in {"blockObject", "inlineObject"})
        => ~AddressesText(objectEditData)

\* C8: closing emits exactly one onFocus, with the closed session's editorPath,
\* and leaves objectEditData null; a deferred open that was pending at the close
\* does not open a session again after it.
C8_CloseIsFinal ==
    [][ /\ (step'.op = "close")
           => /\ onFocusCalls' = <<objectEditData.editorPath>>
              /\ objectEditData' = Null
        /\ (step.op = "close" /\ step'.op = "tick") => objectEditData' = Null ]_vars

\* C9: on close the engine is re-selected at the collapsed selection on editorPath,
\* offset 0, and exactly that selection is recorded as initialSelection.
C9_CloseReselectsEditorPath ==
    [][ (step'.op = "close")
        => /\ selection' = [anchor |-> [path |-> objectEditData.editorPath, offset |-> 0],
                            focus |-> [path |-> objectEditData.editorPath, offset |-> 0]]
           /\ initialSelection' = selection' ]_vars

C9_Witness ==
    /\ step.op = "close"
    /\ objectEditData = Null
    /\ CollapsedAt(selection, <<[_key |-> "b1"], [name |-> "children"], [_key |-> "s2"]>>)
    /\ initialSelection = selection
    /\ focusPath = <<[_key |-> "b1"], [name |-> "markDefs"], [_key |-> "m1"], [name |-> "href"]>>

\* C10: the change proxy forwards exactly one onChange; its patches are the input
\* patches in the same order, with the same type and value, each with the path
\* made of the segments of `path` in their original order followed by the patch's
\* own path.
C10_PatchesPrefixedInOrder ==
    (step.op = "change")
        => /\ Len(onChangeCalls) = 1
           /\ Len(onChangeCalls[1]) = Len(step.patchEvent)
           /\ \A i \in 1..Len(step.patchEvent) :
                  LET in == step.patchEvent[i]
                      out == onChangeCalls[1][i]
                  IN  /\ DOMAIN out = DOMAIN in
                      /\ out.type = in.type
                      /\ out.path = step.path \o in.path
                      /\ ("value" \in DOMAIN in) => out.value = in.value

C10_Witness ==
    /\ step.op = "change"
    /\ step.path = <<[_key |-> "b1"], [name |-> "children"], [_key |-> "c1"]>>
    /\ step.patchEvent = <<[type |-> "set", path |-> <<>>, value |-> "X"]>>
    /\ onChangeCalls =
           << <<[type |-> "set",
                 path |-> <<[_key |-> "b1"], [name |-> "children"], [_key |-> "c1"]>>,
                 value |-> "X"]>> >>

-----------------------------------------------------------------------------
(* The focus proxy, activation and unresolvable annotation paths *)

\* C11: a focus event from the nested object form is forwarded to the external
\* onFocus handler only while an object edit session is open and the path is
\* truthy; with no session open no external focus event is emitted for it.
C11_FocusForwardedOnlyWhileOpen ==
    [][step'.op = "formBuilderFocus" =>
         onFocusCalls' = IF objectEditData # Null /\ step'.nextPath # Undefined
                         THEN <<step'.nextPath.path>>
                         ELSE <<>>]_vars

\* a focus event of the nested form that arrived with no session open
C11_Witness ==
    /\ step.op = "formBuilderFocus"
    /\ step.nextPath # Undefined
    /\ objectEditData = Null
    /\ onFocusCalls = <<>>

\* C12: whenever hasFocus becomes true isActive becomes true, whatever focusPath
\* and objectEditData are, and the editable is rendered read-only exactly when
\* isActive is false or the readOnly prop is truthy.
C12_FocusActivates ==
    [][/\ (~hasFocus /\ hasFocus') => isActive'
       /\ \A readOnly \in ReadOnlyProps :
              EditorReadOnly(readOnly)' = (~isActive' \/ Truthy(readOnly))]_vars

\* the surface reported focus while the focus path addresses plain text and no
\* session is open
C12_Witness ==
    /\ step.op = "hasFocus"
    /\ hasFocus
    /\ isActive
    /\ objectEditData = Null
    /\ focusPath = <<K("b1"), N("children"), K("s1")>>
    /\ ~EditorReadOnly([given |-> FALSE])

\* a focus path [{_key: b}, 'markDefs', ...] that resolves to no annotation
UnresolvableMarkDefsPath(p) ==
    /\ Len(p) >= 2
    /\ "_key" \in DOMAIN p[1]
    /\ p[2] = [name |-> "markDefs"]
    /\ ~ResolvableAnnotationPath(p)

\* C13: a markDefs focus path that cannot be resolved is a no-op: objectEditData
\* stays null, isActive and the engine selection are unchanged, nothing is
\* deferred by the block rule and the effect completes.
C13_UnresolvableMarkDefsNoOp ==
    [][(step'.op = "focusPath" /\ objectEditData = Null
            /\ UnresolvableMarkDefsPath(focusPath')) =>
         /\ objectEditData' = Null
         /\ isActive' = isActive
         /\ selection' = selection
         /\ timeouts' = timeouts
         /\ crashed' = crashed]_vars

-----------------------------------------------------------------------------
(* Pasting *)

\* C14: a paste while the engine has no selection is ignored: the paste handler
\* is not invoked, nothing is inserted, no loading notification is emitted and
\* the browser default is not prevented.
C14_PasteWithoutSelectionIgnored ==
    [][(step'.op = "paste" /\ ~slateSelection) =>
         /\ ~onPasteCalled'
         /\ pastes' = pastes
         /\ inserted' = <<>>
         /\ loadingCalls' = <<>>
         /\ isLoading' = isLoading
         /\ ~defaultPrevented'
         /\ slateChildren' = slateChildren]_vars

\* a paste with a handler supplied, received without a selection
C14_Witness ==
    /\ step.op = "paste"
    /\ step.hasOnPaste
    /\ ~slateSelection
    /\ ~onPasteCalled
    /\ inserted = <<>>

\* C15: each paste causes exactly one insertion, and when the handler's result
\* contains insert that insertion is the returned fragment.
C15_ExactlyOneInsertion ==
    [][step'.op = "settle" =>
         /\ Len(settled'.inserted) = 1
         /\ settled'.outcome = "insert" => settled'.inserted = <<"fragment">>]_vars

PasteFailures == {"throws", "throwsValue", "error", "rejects"}

\* C16: when the handler throws, returns an Error or rejects, the failure is
\* caught and logged, loading:false is emitted, the clipboard data is inserted by
\* the default insertion, no fragment is inserted and nothing is propagated.
C16_FailureFallsBack ==
    [][(step'.op = "settle" /\ step'.outcome \in PasteFailures) =>
         /\ consoleErrors' = 1
         /\ loadingCalls' # <<>>
         /\ Last(loadingCalls') = FALSE
         /\ ~isLoading'
         /\ settled'.inserted = <<"clipboard">>
         /\ ~uncaught']_vars

\* C17: loading:true is emitted before the handler's result resolves and
\* loading:false after it resolves, for every outcome: loading is never left true.
C17_LoadingBrackets ==
    [][/\ (step'.op = "paste" /\ onPasteCalled') => loadingCalls' = <<TRUE>>
       /\ step'.op = "settle" =>
             /\ loadingCalls' # <<>>
             /\ Last(loadingCalls') = FALSE
             /\ ~isLoading']_vars

\* C18: no insertion into the engine happens between the invocation of the paste
\* handler and the settlement of its result.
C18_NoInsertionBeforeSettlement ==
    [][(step'.op = "paste" /\ onPasteCalled') => inserted' = <<>>]_vars

-----------------------------------------------------------------------------
(* Composing *)

\* the engine nodes of the value prop
NodesOfValue == toSlateValue(getValueOrInitialValue(pteValue, <<placeHolderBlock>>))

\* C19: while composing is true, a change of the value prop does not alter the
\* engine's children and emits no engine change notification.
C19_ComposingKeepsEngine ==
    [][(step'.op = "value" /\ isComposing) =>
         /\ slateChildren' = slateChildren
         /\ slateOnChange' = 0]_vars

\* a value arrived while composing and the engine still holds the older nodes
C19_Witness ==
    /\ step.op = "value"
    /\ isComposing
    /\ slateOnChange = 0
    /\ slateChildren # NodesOfValue

C21_ComposingClearedAfterQuietPeriod ==
    /\ [][/\ step'.op = "beforeInput" =>
               (isComposing' /\ debounceTimer' /\ quietFor' = 0)
          /\ (isComposing /\ ~isComposing') =>
               (step'.op = "composeEnd" /\ quietFor >= DebounceWait)]_vars
    /\ (<>[](step.op # "beforeInput")) => <>[](~isComposing)

\* the debounced callback has cleared composing
C21_Witness ==
    /\ step.op = "composeEnd"
    /\ ~isComposing
    /\ ~debounceTimer

-----------------------------------------------------------------------------
(* The value mapper *)

\* C22: a non-empty value of n blocks applied while not composing leaves exactly
\* n children, each deep-equal to the mapped block at its index; a child that
\* was already deep-equal at its index is kept as the same node object, every
\* other one is taken from the mapped value.
C22_PositionalReconcile ==
    [][(step'.op = "value" /\ ~isComposing /\ IsArray(pteValue')
            /\ Len(getValueOrInitialValue(pteValue', <<>>)) > 0) =>
         LET mapped == toSlateValue(pteValue'.array) IN
         /\ Len(slateChildren') = Len(pteValue'.array)
         /\ \A i \in 1..Len(mapped) :
              /\ slateChildren'[i] = mapped[i]
              /\ nodeIsNew'[i] =
                   ~(i <= Len(slateChildren) /\ slateChildren[i] = mapped[i])]_vars

\* a value of two blocks was applied: the first child was kept, the second is new
C22_Witness ==
    /\ step.op = "value"
    /\ ~isComposing
    /\ IsArray(pteValue)
    /\ Len(slateChildren) = 2
    /\ nodeIsNew = <<FALSE, TRUE>>

\* C23: applying a value deep-equal to the one already applied (not composing)
\* keeps every child as the node object it was and leaves the children as they
\* were.
C23_SameSnapshotKeepsNodes ==
    [][(step'.op = "value" /\ ~isComposing /\ pteValue' = pteValue
            /\ slateChildren = NodesOfValue) =>
         /\ slateChildren' = slateChildren
         /\ \A i \in 1..Len(nodeIsNew') : ~nodeIsNew'[i]]_vars

\* the same value of three blocks was applied again
C23_Witness ==
    /\ step.op = "value"
    /\ ~isComposing
    /\ Len(slateChildren) = 3
    /\ slateChildren = NodesOfValue
    /\ nodeIsNew = <<FALSE, FALSE, FALSE>>

\* undefined, a non-array or the empty array
EmptyDocument(v) == v = Undefined \/ ~IsArray(v) \/ Len(getValueOrInitialValue(v, <<>>)) = 0

\* C24: the engine always holds at least one node, and an empty or undefined
\* value that is applied leaves exactly the placeholder: one empty text block
\* with one empty span.
C24_AlwaysOneNode ==
    /\ [](Len(slateChildren) >= 1)
    /\ [][(step'.op \in {"value", "composeEnd"} /\ ~isComposing'
             /\ EmptyDocument(pteValue')) =>
            /\ Len(slateChildren') = 1
            /\ slateChildren'[1]._type = "block"
            /\ Len(slateChildren'[1].children) = 1
            /\ slateChildren'[1].children[1].text = ""]_vars

\* the empty array was applied over other children
C24_Witness ==
    /\ step.op = "value"
    /\ ~isComposing
    /\ pteValue = Arr(<<>>)
    /\ slateChildren = <<placeHolderBlock>>
    /\ nodeIsNew = <<TRUE>>

-----------------------------------------------------------------------------
(* The selection from props *)

\* C25: a change of the selection prop is applied to the engine (selection set
\* and a change notification emitted) if and only if the prop is set, differs
\* from the engine's selection mapped outward, normalizes to a non-null
\* selection against the value and converts to a non-null engine range;
\* otherwise the engine's selection is unchanged and nothing is notified.
C25_SelectionPropApplied ==
    [][step'.op = "selection" =>
         IF /\ propsSelection' # Undefined
            /\ propsSelection' # toPortableTextRange(pteValue, slateRange)
            /\ normalizeSelection(propsSelection', pteValue) # Null
            /\ toSlateRange(normalizeSelection(propsSelection', pteValue),
                            slateChildren) # Null
         THEN /\ slateRange' = toSlateRange(normalizeSelection(propsSelection', pteValue),
                                            slateChildren)
              /\ selectOnChange' = 1
         ELSE /\ slateRange' = slateRange
              /\ selectOnChange' = 0]_vars

\* a selection beyond the end of the text was clamped and applied
C25_Witness ==
    /\ step.op = "selection"
    /\ propsSelection = PtCollapsed("a", "a1", 9)
    /\ selectOnChange = 1
    /\ slateRange = SlateCollapsed(<<0, 0>>, 5)

-----------------------------------------------------------------------------
(* Markers *)

\* the marker's path starts with the segments given
PathStartsWith(path, prefix) ==
    Len(path) >= Len(prefix) /\ SubSeq(path, 1, Len(prefix)) = prefix

\* C26: the markers handed to a renderer are scoped to its entity: a block
\* object gets exactly the markers whose path addresses the block, an inline
\* object only markers addressed to that child of its own block, an annotation
\* only markers addressed to that markDef of its own block.
C26_MarkersScoped ==
    rendered # Null =>
        /\ rendered.kind = "blockObject" =>
             rendered.markers =
               SelectSeq(markers,
                         LAMBDA marker : PathStartsWith(marker.path, <<K(rendered.block)>>))
        /\ rendered.kind = "inlineObject" =>
             \A i \in 1..Len(rendered.markers) :
                PathStartsWith(rendered.markers[i].path,
                               <<K(rendered.block), N("children"), K(rendered.key)>>)
        /\ rendered.kind = "annotation" =>
             \A i \in 1..Len(rendered.markers) :
                PathStartsWith(rendered.markers[i].path,
                               <<K(rendered.block), N("markDefs"), K(rendered.key)>>)

-----------------------------------------------------------------------------
(* Deferred opens and the focus events of the selection *)

\* C27: a deferred open that a newer focusPath has superseded opens no session
\* for the stale path: whenever objectEditData becomes a blockObject or
\* inlineObject session, its editorPath is a prefix of the current focusPath.
C27_StaleDeferredOpenHarmless ==
    [][(objectEditData = Null /\ objectEditData' # Null
            /\ objectEditData'.kind \in {"blockObject", "inlineObject"}) =>
         PathStartsWith(focusPath', objectEditData'.editorPath)]_vars

\* C30: an engine selection change emits onFocus(selection.focus.path) only when
\* a selection exists, no session is open, the focusPath is not a markDefs path,
\* the selection is collapsed and its focus path differs from the focusPath.
C30_SelectionFocusGuarded ==
    [][(step'.op = "selectionEffect" /\ onFocusCalls' # <<>>) =>
         /\ selection # Undefined
         /\ objectEditData = Null
         /\ ~(Len(focusPath) >= 2 /\ focusPath[2] = N("markDefs"))
         /\ selection.focus = selection.anchor
         /\ focusPath # selection.focus.path
         /\ onFocusCalls' = <<selection.focus.path>>]_vars

\* a collapsed selection of the user was reported as the new focus path
C30_Witness ==
    /\ step.op = "selectionEffect"
    /\ objectEditData = Null
    /\ selection = Collapsed(<<K("b1"), N("children"), K("s2")>>)
    /\ onFocusCalls = <<selection.focus.path>>

-----------------------------------------------------------------------------
(* CrossDatasetReferenceInput *)

-----------------------------------------------------------------------------
(* The fullscreen toggle *)

\* C33: handleToggleFullscreen records the engine's current selection as
\* initialSelection before it asks for the fullscreen toggle and asks for the
\* editor's focus after it, so the surface mounted by the toggle is handed the
\* selection that was current at the moment of the toggle.
C33_ToggleRecordsSelectionFirst ==
    [][step'.op = "toggleFullscreen"
         => /\ toggleCalls'[1] = [call |-> "setInitialSelection", arg |-> selection]
            /\ toggleCalls'[2].call = "onToggleFullscreen"
            /\ toggleCalls'[3].call = "focus"
            /\ Len(toggleCalls') = 3
            /\ isFullscreen' # isFullscreen
            /\ initialSelection' = selection
            /\ selection' = selection]_vars

\* a toggle into fullscreen after the user selected a range
C33_Witness ==
    /\ step.op = "toggleFullscreen"
    /\ isFullscreen
    /\ initialSelection \in UserSelections
    /\ ~isCollapsed(initialSelection)
    /\ toggleCalls[1].arg = initialSelection

\* C34: isActive is monotonic: it starts false, and once it is true no change
\* of focusPath, close, blur, value update or toggle sets it back to false.
C34_IsActiveMonotonic ==
    /\ isActive = FALSE
    /\ [][isActive => isActive']_vars

\* active after a blur, a close and a value update
C34_Witness ==
    /\ isActive
    /\ ~hasFocus
    /\ objectEditData = Null
    /\ focusPath = <<>>
    /\ step.op = "setValue"

-----------------------------------------------------------------------------
(* PopoverEditDialog *)

\* C31: the dialog calls onClose only while it is the top layer: a click on the
\* close button, a click outside and an Escape keydown call onClose once when
\* isTopLayer is true and not at all when it is false; a keydown of another key
\* never calls it.
C31_CloseOnlyOnTopLayer ==
    [][/\ step'.op \in {"closeButton", "clickOutside"}
           => onCloseCalls' = IF isTopLayer THEN 1 ELSE 0
       /\ step'.op = "popoverKeyDown"
           => onCloseCalls' = IF step'.key = "Escape" /\ isTopLayer THEN 1 ELSE 0]_vars

\* an Escape keydown while another layer is above the dialog
C31_Witness ==
    /\ step.op = "popoverKeyDown"
    /\ step.key = "Escape"
    /\ ~isTopLayer
    /\ onCloseCalls = 0

-----------------------------------------------------------------------------
(* TagsTextField *)

\* C32: after an Enter key press or a blur the pending text of the input is
\* empty, and a pending text that was not empty has been handed to addTag exactly
\* once; a blur with no pending text calls addTag not at all; a blur leaves
\* isFocused false and a focus leaves it true.
C32_EnterAndBlurCommitText ==
    [][/\ (step'.op = "tagsKeyPress" /\ step'.key = "Enter")
           => /\ inputValue' = <<>>
              /\ inputValue # <<>> => addTagCalls' = <<inputValue>>
       /\ step'.op = "tagsBlur"
           => /\ inputValue' = <<>>
              /\ inputValue # <<>> => addTagCalls' = <<inputValue>>
              /\ inputValue = <<>> => addTagCalls' = <<>>
              /\ ~isFocused'
       /\ step'.op \in {"tagsFocus", "tagsSetFocus"} => isFocused']_vars

\* a blur with pending text has handed it to addTag
C32_Witness ==
    /\ step.op = "tagsBlur"
    /\ addTagCalls = <<<<"a", "b">>>>
    /\ inputValue = <<>>
    /\ ~isFocused

\* C35: removeTag is called only with the index of an existing tag
\* (0 <= i < tags.length), and a key event calls it only as a Backspace key-up
\* while the input text is empty; no sequence of key events, Backspace on an
\* empty tag list included, calls it with an index out of range.
C35_RemoveTagInRange ==
    [][/\ \A n \in 1..Len(removeTagCalls') :
              removeTagCalls'[n] \in 0..(Len(tags) - 1)
       /\ (step'.op \in {"tagsKeyDown", "tagsKeyPress", "tagsKeyUp"}
             /\ removeTagCalls' # <<>>)
           => /\ step'.op = "tagsKeyUp"
              /\ step'.key = "Backspace"
              /\ inputValue = <<>>]_vars

====
